---- MODULE Spec2Model ----
(***************************************************************************)
(* Model of the map / collision / movement core of Labyrinth_game:         *)
(*   src/src/components/collision.py   CollisionManager                    *)
(*   src/src/core/world.py             TileMap.load_map, load_tileset      *)
(*   src/src/asset_manager.py          AssetManager.load_tileset           *)
(*   src/src/entities/player.py        Player.update, check_collision      *)
(*                                                                         *)
(* Python floats are modelled as exact rationals [n, d] (d > 0, lowest     *)
(* terms): every float operation of the code is the corresponding exact    *)
(* operation, int() truncates toward zero and // floors.  Rounding error   *)
(* of IEEE doubles is not modelled.                                        *)
(* Python dicts are records; d.get(k, default) is Get(d, k, default).      *)
(* Python strings that the code inspects (lower(), `in`) are sequences of  *)
(* one-character strings.  Python lists are sequences, so list index i of  *)
(* the code is position i + 1 here.                                        *)
(***************************************************************************)
EXTENDS Integers, Sequences, FiniteSets, TLC

VARIABLES
    files,      \* the asset directory: path -> parsed JSON document
    map_path,   \* TileMap.map_path, the map document being loaded
    tilemap,    \* TileMap fields (world.py 10-18) and AssetManager.tilesets
    cm,         \* TileMap.collision_manager: None or a CollisionManager
    pc,         \* position inside TileMap.load_map
    query,      \* the last query made and its result
    player,     \* Player fields (player.py 9-59)
    tick,       \* number of Player.update calls made
    last,       \* what the last Player.update did (history of one tick)
    game_map    \* Game.map while Game.load_map constructs the next TileMap

vars == <<files, map_path, tilemap, cm, pc, query, player, tick, last, game_map>>

-----------------------------------------------------------------------------
(* Python values *)

\* dict.get(key, default)
Get(d, k, default) == IF k \in DOMAIN d THEN d[k] ELSE default

Has(d, k) == k \in DOMAIN d

Max(a, b) == IF a >= b THEN a ELSE b
Min(a, b) == IF a <= b THEN a ELSE b
Abs(a) == IF a >= 0 THEN a ELSE -a

RECURSIVE GCD(_, _)
GCD(a, b) == IF b = 0 THEN a ELSE GCD(b, a % b)

\* A float: the exact rational n / d in lowest terms with d > 0.
Rat(n, d) ==
    LET s == IF d < 0 THEN -1 ELSE 1
        g == GCD(Abs(n), Abs(d))
    IN  [n |-> (s * n) \div g, d |-> (s * d) \div g]

F(i) == [n |-> i, d |-> 1]

LCM(a, b) == (a \div GCD(a, b)) * b

RAdd(a, b) ==
    LET l == LCM(a.d, b.d)
    IN  Rat(a.n * (l \div a.d) + b.n * (l \div b.d), l)
RNeg(a) == [n |-> -a.n, d |-> a.d]
RSub(a, b) == RAdd(a, RNeg(b))
RMul(a, b) ==
    LET g1 == GCD(Abs(a.n), b.d)
        g2 == GCD(Abs(b.n), a.d)
    IN  Rat((a.n \div g1) * (b.n \div g2), (a.d \div g2) * (b.d \div g1))
\* a / b for b # 0 (Python true division)
RDiv(a, b) == RMul(a, Rat(b.d, b.n))
RLt(a, b) == RSub(a, b).n < 0
RLe(a, b) == RSub(a, b).n <= 0
RMax(a, b) == IF RLt(a, b) THEN b ELSE a
RMin(a, b) == IF RLt(b, a) THEN b ELSE a
RAbs(a) == [n |-> Abs(a.n), d |-> a.d]
\* a // b on floats, then int(): the floor of the quotient
RFloorDiv(a, b) == LET q == RDiv(a, b) IN q.n \div q.d
\* int(a): truncation toward zero
RInt(a) == IF a.n >= 0 THEN a.n \div a.d ELSE -((-a.n) \div a.d)

\* str.lower() on the letters the documents use
LowerChar(c) ==
    CASE c = "A" -> "a" [] c = "C" -> "c" [] c = "E" -> "e"
      [] c = "F" -> "f" [] c = "G" -> "g" [] c = "I" -> "i" [] c = "L" -> "l"
      [] c = "N" -> "n" [] c = "O" -> "o" [] c = "R" -> "r"
      [] c = "S" -> "s" [] c = "T" -> "t" [] c = "U" -> "u"
      [] c = "W" -> "w"
      [] OTHER -> c

Lower(s) == [i \in DOMAIN s |-> LowerChar(s[i])]

\* pat in s
Contains(s, pat) ==
    \E i \in 0..(Len(s) - Len(pat)) : SubSeq(s, i + 1, i + Len(pat)) = pat

S_true == <<"t", "r", "u", "e">>
S_True == <<"T", "r", "u", "e">>
S_false == <<"f", "a", "l", "s", "e">>
S_collidable == <<"c", "o", "l", "l", "i", "d", "a", "b", "l", "e">>
S_collision == <<"c", "o", "l", "l", "i", "s", "i", "o", "n">>
S_Collision == <<"C", "o", "l", "l", "i", "s", "i", "o", "n">>
S_COLLISION == <<"M", "y", " ", "C", "O", "L", "L", "I", "S", "I", "O", "N">>
S_Water == <<"W", "a", "t", "e", "r">>
S_Grass == <<"G", "r", "a", "s", "s">>
S_Unknown == <<"U", "n", "k", "n", "o", "w", "n">>
S_Ground == <<"G", "r", "o", "u", "n", "d">>

-----------------------------------------------------------------------------
(* CollisionManager *)

grid_cell_size == 32

NoneVal == [none |-> TRUE]

IsNone(v) == Has(v, "none")

\* CollisionManager.__init__
NewCollisionManager(tile_width, tile_height, map_width, map_height) ==
    [ tile_width |-> tile_width,
      tile_height |-> tile_height,
      map_width |-> map_width,
      map_height |-> map_height,
      collision_map |-> [i \in 0..(map_width * map_height - 1) |-> FALSE],
      collidable_tiles |-> {},
      collision_objects |-> <<>>,
      spatial_grid |-> <<>> ]

\* a JSON value that json.load gives as a bool or an int is written as a
\* one-element sequence holding one of these atoms; a str holds letters only
NotStr == {"bool:true", "bool:false", "int:1"}
J_true == <<"bool:true">>
J_false == <<"bool:false">>
J_one == <<"int:1">>
IsStr(v) == \A i \in DOMAIN v : v[i] \notin NotStr

\* prop.get('value', 'false').lower() raises AttributeError on a bool or an
\* int (lines 35 and 55)
PropRaises(prop) ==
    /\ Has(prop, "name")
    /\ prop.name = S_collidable
    /\ ~IsStr(Get(prop, "value", S_false))

\* the value is compared without lower()
PropSaysCollidable_CaseSensitive(prop) ==
    /\ Has(prop, "name")
    /\ prop.name = S_collidable
    /\ Get(prop, "value", S_false) = S_true

\* prop.get('name') == 'collidable' and prop.get('value', 'false').lower() == 'true'
PropSaysCollidable(prop) ==
    /\ Has(prop, "name")
    /\ prop.name = S_collidable
    /\ Lower(Get(prop, "value", S_false)) = S_true

\* the properties list of a tileset or tile entry marks it collidable
ListSaysCollidable(d) ==
    /\ Has(d, "properties")
    /\ \E i \in DOMAIN d.properties : PropSaysCollidable(d.properties[i])

TilesetName(tileset) ==
    Get(Get(tileset, "original_data", <<>>), "name", S_Unknown)

\* range(tileset.get('tilecount', 0)) shifted by firstgid
TilesetRange(firstgid, tileset) ==
    {firstgid + i : i \in 0..(Get(tileset, "tilecount", 0) - 1)}

\* the Water rule marks only the flagged tile's own gid
TileEntryGids_NoWaterRule(firstgid, tileset, tile_info) ==
    IF ListSaysCollidable(tile_info)
    THEN {firstgid + Get(tile_info, "id", 0)}
    ELSE {}

\* the gids one tile entry adds (lines 50-65)
TileEntryGids(firstgid, tileset, tile_info) ==
    IF ListSaysCollidable(tile_info)
    THEN {firstgid + Get(tile_info, "id", 0)}
         \cup (IF TilesetName(tileset) = S_Water
               THEN TilesetRange(firstgid, tileset) ELSE {})
    ELSE {}

\* the gids one tileset adds (lines 25-65)
TilesetGids(firstgid, tileset) ==
    (IF ListSaysCollidable(tileset) THEN TilesetRange(firstgid, tileset) ELSE {})
    \cup
    (IF Has(tileset, "original_data") /\ Has(tileset.original_data, "tiles")
     THEN UNION {TileEntryGids(firstgid, tileset, tileset.original_data.tiles[i]) :
                    i \in DOMAIN tileset.original_data.tiles}
     ELSE {})

\* the loop of lines 31-37 reaches a value that is no str: it stops at the
\* first property that says collidable
TilesetPropsRaise(tileset) ==
    /\ Has(tileset, "properties")
    /\ \E i \in DOMAIN tileset.properties :
          /\ PropRaises(tileset.properties[i])
          /\ \A j \in 1..(i - 1) : ~PropSaysCollidable(tileset.properties[j])

\* the loop of lines 51-65 has no break: any value that is no str raises
TilePropsRaise(tile_info) ==
    /\ Has(tile_info, "properties")
    /\ \E i \in DOMAIN tile_info.properties : PropRaises(tile_info.properties[i])

TilesetTiles(tileset) ==
    IF Has(tileset, "original_data") /\ Has(tileset.original_data, "tiles")
    THEN tileset.original_data.tiles
    ELSE << >>

TilesetRaises_Identify(tileset) ==
    \/ TilesetPropsRaise(tileset)
    \/ \E i \in DOMAIN TilesetTiles(tileset) :
          TilePropsRaise(TilesetTiles(tileset)[i])

\* identify_collidable_tiles raises AttributeError
IdentifyRaises(tilesets) ==
    \E g \in DOMAIN tilesets : TilesetRaises_Identify(tilesets[g])

\* the gids the raising tileset had added when the call raised
TilesetGidsUntilRaise(firstgid, tileset) ==
    IF TilesetPropsRaise(tileset)
    THEN {}
    ELSE LET tiles == TilesetTiles(tileset)
             k == CHOOSE i \in DOMAIN tiles :
                     /\ TilePropsRaise(tiles[i])
                     /\ \A j \in 1..(i - 1) : ~TilePropsRaise(tiles[j])
             props == tiles[k].properties
             r == CHOOSE i \in DOMAIN props :
                     /\ PropRaises(props[i])
                     /\ \A j \in 1..(i - 1) : ~PropRaises(props[j])
             head == [tiles[k] EXCEPT !.properties = SubSeq(props, 1, r - 1)]
         IN  (IF ListSaysCollidable(tileset)
              THEN TilesetRange(firstgid, tileset) ELSE {})
             \cup UNION {TileEntryGids(firstgid, tileset, tiles[j]) :
                            j \in 1..(k - 1)}
             \cup TileEntryGids(firstgid, tileset, head)

\* collidable_tiles when identify_collidable_tiles raised: the tilesets are
\* visited in the order of the map's list, which the documents give by
\* ascending firstgid
IdentifyUntilRaise(c, tilesets) ==
    LET g0 == CHOOSE g \in DOMAIN tilesets :
                 /\ TilesetRaises_Identify(tilesets[g])
                 /\ \A h \in DOMAIN tilesets :
                       TilesetRaises_Identify(tilesets[h]) => g <= h
    IN  [c EXCEPT !.collidable_tiles =
            @ \cup UNION {TilesetGids(g, tilesets[g]) :
                             g \in {h \in DOMAIN tilesets : h < g0}}
              \cup TilesetGidsUntilRaise(g0, tilesets[g0])]

\* CollisionManager.identify_collidable_tiles: the keys of collidable_tiles
IdentifyCollidableTiles(c, tilesets) ==
    [c EXCEPT !.collidable_tiles =
        @ \cup UNION {TilesetGids(g, tilesets[g]) : g \in DOMAIN tilesets}]

\* CollisionManager.is_tile_collidable
IsTileCollidable(c, gid) == gid \in c.collidable_tiles

\* one map object as zero or one collision shape (lines 79-116)
ObjectShapes(obj, tile_width, tile_height) ==
    LET x == Rat(Get(obj, "x", 0), tile_width)
        y == Rat(Get(obj, "y", 0), tile_height)
        width == Rat(Get(obj, "width", 0), tile_width)
        height == Rat(Get(obj, "height", 0), tile_height)
    IN  IF Has(obj, "polygon")
        THEN << [ type |-> "polygon",
                  points |-> [i \in DOMAIN obj.polygon |->
                      << RAdd(x, Rat(obj.polygon[i].x, tile_width)),
                         RAdd(y, Rat(obj.polygon[i].y, tile_height)) >>] ] >>
        ELSE IF width.n = 0 \/ height.n = 0
        THEN << >>
        ELSE << [ x |-> x, y |-> y, width |-> width, height |-> height,
                  type |-> IF Get(obj, "ellipse", FALSE)
                           THEN "ellipse" ELSE "rectangle" ] >>

RECURSIVE ObjectsShapes(_, _, _)
ObjectsShapes(objects, tile_width, tile_height) ==
    IF objects = << >> THEN << >>
    ELSE ObjectShapes(Head(objects), tile_width, tile_height)
         \o ObjectsShapes(Tail(objects), tile_width, tile_height)

\* the name is compared as it is spelt
IsCollisionLayer_CaseSensitive(layer) ==
    /\ layer.type = "objectgroup"
    /\ Contains(layer.name, S_collision)

\* layer['type'] == 'objectgroup' and 'collision' in layer['name'].lower()
IsCollisionLayer(layer) ==
    /\ layer.type = "objectgroup"
    /\ Contains(Lower(layer.name), S_collision)

RECURSIVE LayersShapes(_, _, _)
LayersShapes(layers, tile_width, tile_height) ==
    IF layers = << >> THEN << >>
    ELSE (IF IsCollisionLayer(Head(layers))
          THEN ObjectsShapes(Get(Head(layers), "objects", << >>),
                             tile_width, tile_height)
          ELSE << >>)
         \o LayersShapes(Tail(layers), tile_width, tile_height)

\* CollisionManager.load_collision_objects
LoadCollisionObjects(c, layers, tile_width, tile_height) ==
    [c EXCEPT !.collision_objects =
        @ \o LayersShapes(layers, tile_width, tile_height)]

\* the bounding box of a shape in tile units; polygons need a point
ShapeBox(obj) ==
    IF obj.type = "polygon"
    THEN LET P == obj.points
             xs == {P[i][1] : i \in DOMAIN P}
             ys == {P[i][2] : i \in DOMAIN P}
         IN  [ min_x |-> CHOOSE v \in xs : \A w \in xs : RLe(v, w),
               max_x |-> CHOOSE v \in xs : \A w \in xs : RLe(w, v),
               min_y |-> CHOOSE v \in ys : \A w \in ys : RLe(v, w),
               max_y |-> CHOOSE v \in ys : \A w \in ys : RLe(w, v) ]
    ELSE [ min_x |-> obj.x, max_x |-> RAdd(obj.x, obj.width),
           min_y |-> obj.y, max_y |-> RAdd(obj.y, obj.height) ]

\* int(v * tile_size // self.grid_cell_size)
GridCoord(v, tile_size) == RFloorDiv(RMul(v, F(tile_size)), F(grid_cell_size))

\* the grid cells one shape is registered in (lines 172-200)
ShapeCells(c, obj) ==
    IF obj.type = "polygon" /\ obj.points = << >>
    THEN {}
    ELSE LET b == ShapeBox(obj)
             start_x == Max(0, GridCoord(b.min_x, c.tile_width))
             start_y == Max(0, GridCoord(b.min_y, c.tile_height))
             end_x == GridCoord(b.max_x, c.tile_width) + 1
             end_y == GridCoord(b.max_y, c.tile_height) + 1
         IN  {<<grid_x, grid_y>> :
                 grid_x \in start_x..(end_x - 1), grid_y \in start_y..(end_y - 1)}

\* CollisionManager._build_spatial_grid: cell -> indices in insertion order
BuildSpatialGrid(c) ==
    LET objs == c.collision_objects
        cells == UNION {ShapeCells(c, objs[i]) : i \in DOMAIN objs}
        Idx == [i \in 1..Len(objs) |-> i]
    IN  [c EXCEPT !.spatial_grid =
            [cell \in cells |->
                SelectSeq(Idx, LAMBDA i : cell \in ShapeCells(c, objs[i]))]]

\* the layer's visible flag is not looked at
LayerMarks_IgnoreVisible(c, layer, index) ==
    /\ layer.type = "tilelayer"
    /\ LET data == Get(layer, "data", << >>)
       IN  /\ index < Len(data)
           /\ data[index + 1] # 0
           /\ data[index + 1] \in c.collidable_tiles

\* a tile layer marks index (line 129, 138-146)
LayerMarks(c, layer, index) ==
    /\ layer.type = "tilelayer"
    /\ Get(layer, "visible", TRUE)
    /\ LET data == Get(layer, "data", << >>)
       IN  /\ index < Len(data)
           /\ data[index + 1] # 0
           /\ data[index + 1] \in c.collidable_tiles

\* CollisionManager.build_collision_map
BuildCollisionMap(c, layers) ==
    BuildSpatialGrid(
        [c EXCEPT !.collision_map =
            [index \in DOMAIN @ |->
                \/ @[index]
                \/ \E y \in 0..(c.map_height - 1), x \in 0..(c.map_width - 1) :
                      /\ index = y * c.map_width + x
                      /\ \E l \in DOMAIN layers : LayerMarks(c, layers[l], index)]])

\* one edge (i, j) of the ray cast toggles `inside` (lines 220-222)
EdgeCrosses(x, y, pi, pj) ==
    /\ RLt(y, pi[2]) # RLt(y, pj[2])
    /\ RLt(x, RAdd(RDiv(RMul(RSub(pj[1], pi[1]), RSub(y, pi[2])),
                        RSub(pj[2], pi[2])),
                   pi[1]))

\* CollisionManager.point_in_polygon: an odd number of toggles
PointInPolygon(x, y, points) ==
    LET n == Len(points)
        prev(i) == IF i = 1 THEN n ELSE i - 1
        crossing == {i \in 1..n : EdgeCrosses(x, y, points[i], points[prev(i)])}
    IN  Cardinality(crossing) % 2 = 1

\* the exact containment test of one shape (lines 254-286); x, y in pixels
ShapeContains(c, obj, x, y) ==
    IF obj.type = "polygon"
    THEN PointInPolygon(RDiv(x, F(c.tile_width)), RDiv(y, F(c.tile_height)),
                        obj.points)
    ELSE LET obj_x == RMul(obj.x, F(c.tile_width))
             obj_y == RMul(obj.y, F(c.tile_height))
             obj_width == RMul(obj.width, F(c.tile_width))
             obj_height == RMul(obj.height, F(c.tile_height))
         IN  IF obj.type = "rectangle"
             THEN /\ RLe(obj_x, x) /\ RLt(x, RAdd(obj_x, obj_width))
                  /\ RLe(obj_y, y) /\ RLt(y, RAdd(obj_y, obj_height))
             ELSE /\ obj_width.n # 0 /\ obj_height.n # 0
                  /\ LET center_x == RAdd(obj_x, RDiv(obj_width, F(2)))
                         center_y == RAdd(obj_y, RDiv(obj_height, F(2)))
                         dx == RDiv(RSub(x, center_x), RDiv(obj_width, F(2)))
                         dy == RDiv(RSub(y, center_y), RDiv(obj_height, F(2)))
                     IN  RLe(RAdd(RMul(dx, dx), RMul(dy, dy)), F(1))

\* the cell is looked up with the broad-phase cell size
TileBlocked_GridCellSize(c, x, y) ==
    LET tile_x == RFloorDiv(x, F(grid_cell_size))
        tile_y == RFloorDiv(y, F(grid_cell_size))
    IN  /\ 0 <= tile_x /\ tile_x < c.map_width
        /\ 0 <= tile_y /\ tile_y < c.map_height
        /\ c.collision_map[tile_y * c.map_width + tile_x]

\* the dense-grid half of the query (lines 233-239)
TileBlocked(c, x, y) ==
    LET tile_x == RFloorDiv(x, F(c.tile_width))
        tile_y == RFloorDiv(y, F(c.tile_height))
    IN  /\ 0 <= tile_x /\ tile_x < c.map_width
        /\ 0 <= tile_y /\ tile_y < c.map_height
        /\ c.collision_map[tile_y * c.map_width + tile_x]

\* the spatial-hash half of the query (lines 242-286)
ShapeBlocked(c, x, y) ==
    LET cell_key == <<RFloorDiv(x, F(grid_cell_size)),
                      RFloorDiv(y, F(grid_cell_size))>>
    IN  /\ cell_key \in DOMAIN c.spatial_grid
        /\ \E k \in DOMAIN c.spatial_grid[cell_key] :
              ShapeContains(c, c.collision_objects[c.spatial_grid[cell_key][k]],
                            x, y)

\* CollisionManager.is_position_collidable
IsPositionCollidable(c, x, y) == TileBlocked(c, x, y) \/ ShapeBlocked(c, x, y)

\* a hit is remembered in the dense grid
AfterIsPositionCollidable_Remembering(c, x, y) ==
    LET tile_x == RFloorDiv(x, F(c.tile_width))
        tile_y == RFloorDiv(y, F(c.tile_height))
    IN  IF /\ IsPositionCollidable(c, x, y)
           /\ 0 <= tile_x /\ tile_x < c.map_width
           /\ 0 <= tile_y /\ tile_y < c.map_height
        THEN [c EXCEPT !.collision_map[tile_y * c.map_width + tile_x] = TRUE]
        ELSE c

\* the CollisionManager after is_position_collidable(x, y) returned: lines
\* 228-288 assign locals only
AfterIsPositionCollidable(c, x, y) == c

\* the CollisionManager after is_tile_collidable(gid) returned
AfterIsTileCollidable(c, gid) == c

-----------------------------------------------------------------------------
(* AssetManager and TileMap *)

\* a file that exists and parses as JSON
Readable(fs, path) == path \in DOMAIN fs /\ ~Has(fs[path], "corrupt")

\* AssetManager.load_tileset raises AttributeError at line 86 when the file
\* parses to JSON that is no object: tileset_data.get is outside what the
\* except clause of line 141 catches
TilesetRaises(fs, path) ==
    Readable(fs, path) /\ Has(fs[path], "not_object")

\* AssetManager.load_tileset on a cache miss: the entry built from the file
ParseTileset(doc) ==
    [ columns |-> Get(doc, "columns", 1),
      tilecount |-> Get(doc, "tilecount", 1),
      tilewidth |-> Get(doc, "tilewidth", 16),
      tileheight |-> Get(doc, "tileheight", 16),
      firstgid |-> 1,
      animations |-> LET T == Get(doc, "tiles", << >>)
                     IN  {Get(T[i], "id", 0) : i \in {j \in DOMAIN T : Has(T[j], "animation")}},
      tiles |-> Get(doc, "tiles", << >>) ]

\* the file is parsed on every call
AssetLoadTileset_NoCache(cache, fs, path) ==
    IF ~Readable(fs, path) THEN <<NoneVal, cache>>
    ELSE LET t == ParseTileset(fs[path])
         IN  <<t, [q \in DOMAIN cache \cup {path} |->
                      IF q = path THEN t ELSE cache[q]]>>

\* AssetManager.load_tileset: <<returned entry or None, new cache>>
AssetLoadTileset(cache, fs, path) ==
    IF path \in DOMAIN cache THEN <<cache[path], cache>>
    ELSE IF ~Readable(fs, path) THEN <<NoneVal, cache>>
    ELSE LET t == ParseTileset(fs[path])
         IN  <<t, [q \in DOMAIN cache \cup {path} |->
                      IF q = path THEN t ELSE cache[q]]>>

\* the entry after TileMap.load_tileset decorated it (lines 132-143)
Decorate(entry, ref, doc) ==
    LET base == [k \in DOMAIN entry \cup {"original_data"} |->
                    IF k = "firstgid" THEN ref.firstgid
                    ELSE IF k = "original_data" THEN doc
                    ELSE entry[k]]
    IN  IF Has(doc, "properties")
        THEN [k \in DOMAIN base \cup {"properties"} |->
                 IF k = "properties" THEN doc.properties ELSE base[k]]
        ELSE base

\* TileMap.load_tileset for one reference of the map's tileset list. The
\* entry is the dict the cache holds, changed in place: the cache and every
\* tileset_images slot that holds this dict see the change. When the file
\* no longer opens or parses at line 137 only firstgid is set (line 155).
TileMapLoadTileset(tm, fs, ref) ==
    IF ~Has(ref, "source") THEN tm
    ELSE LET r == AssetLoadTileset(tm.asset_tilesets, fs, ref.source)
         IN  IF IsNone(r[1]) THEN tm
             ELSE LET data == IF Readable(fs, ref.source)
                              THEN Decorate(r[1], ref, fs[ref.source])
                              ELSE [r[1] EXCEPT !.firstgid = ref.firstgid]
                  IN  [tm EXCEPT
                        !.asset_tilesets =
                            [q \in DOMAIN r[2] |->
                                IF q = ref.source THEN data ELSE r[2][q]],
                        !.tileset_images =
                            [g \in DOMAIN @ \cup {ref.firstgid} |->
                                IF g = ref.firstgid THEN data
                                ELSE IF @[g] = r[1] THEN data
                                ELSE @[g]],
                        !.animated_tiles =
                            @ \cup {ref.firstgid + a : a \in data.animations}]

RECURSIVE LoadTilesets(_, _, _)
LoadTilesets(tm, fs, refs) ==
    IF refs = << >> THEN tm
    ELSE LoadTilesets(TileMapLoadTileset(tm, fs, Head(refs)), fs, Tail(refs))

\* TileMap.__init__ before it calls load_map
NewTileMap ==
    [ map_data |-> NoneVal,
      tileset_images |-> << >>,
      animated_tiles |-> {},
      tile_width |-> 0,
      tile_height |-> 0,
      map_width |-> 0,
      map_height |-> 0,
      layers |-> << >>,
      asset_tilesets |-> << >> ]

\* TileMap.load_map lines 44-67: properties, tilesets, layers
ReadMap(tm, fs, path) ==
    LET doc == fs[path]
        t1 == [tm EXCEPT !.map_data = doc,
                         !.tile_width = Get(doc, "tilewidth", 16),
                         !.tile_height = Get(doc, "tileheight", 16),
                         !.map_width = Get(doc, "width", 0),
                         !.map_height = Get(doc, "height", 0)]
        t2 == LoadTilesets(t1, fs, Get(doc, "tilesets", << >>))
    IN  [t2 EXCEPT !.layers = Get(doc, "layers", << >>)]

\* TileMap.load_map raises out of its tilesets loop (lines 61-63)
LoadRaises(fs, path) ==
    LET refs == Get(fs[path], "tilesets", << >>)
    IN  \E i \in DOMAIN refs :
            Has(refs[i], "source") /\ TilesetRaises(fs, refs[i].source)

\* the three build calls of TileMap.load_map (lines 70-76) in their order
BuildIndex(c, tm) ==
    BuildCollisionMap(
        IdentifyCollidableTiles(
            LoadCollisionObjects(c, tm.layers, tm.tile_width, tm.tile_height),
            tm.tileset_images),
        tm.layers)

\* TileMap.is_position_collidable and is_tile_collidable raise AttributeError
\* when collision_manager is still None (world.py lines 80, 83)
QueryRaises(c) == IsNone(c)

\* Game.update_collision_cache raises ZeroDivisionError at game.py lines
\* 102-103 when the map it holds has a zero tile size
UpdateCollisionCacheRaises(tm) == tm.tile_width = 0 \/ tm.tile_height = 0

-----------------------------------------------------------------------------
(* Player *)

collision_margin == 4
default_tile_size == 16
speed_divisor == 300

\* 0.7071, the diagonal factor of line 123
Diagonal == Rat(7071, 10000)

\* Player.__init__ (lines 9-59) with the sprite size the tileset gives
NewPlayer(x, y, player_speed) ==
    [ x |-> x, y |-> y,
      float_x |-> F(x), float_y |-> F(y),
      width |-> default_tile_size, height |-> default_tile_size,
      speed |-> Rat(player_speed, speed_divisor),
      map_width |-> 0, map_height |-> 0,
      moving |-> FALSE, direction |-> "down" ]

\* Player.set_map_boundaries
SetMapBoundaries(p, map_width, map_height) ==
    [p EXCEPT !.map_width = map_width, !.map_height = map_height]

\* Player._update_collision_points: the eight sample points
CollisionPoints(p) ==
    LET col_x == p.x + collision_margin
        col_y == p.y + collision_margin
        col_width == p.width - collision_margin * 2
        col_height == p.height - collision_margin * 2
    IN  << <<col_x, col_y>>,
           <<col_x + col_width - 1, col_y>>,
           <<col_x, col_y + col_height - 1>>,
           <<col_x + col_width - 1, col_y + col_height - 1>>,
           <<col_x + col_width \div 2, col_y>>,
           <<col_x + col_width - 1, col_y + col_height \div 2>>,
           <<col_x + col_width \div 2, col_y + col_height - 1>>,
           <<col_x, col_y + col_height \div 2>> >>

\* Player.check_collision, tile part (lines 254-270)
TileHit(p, tm, c) ==
    LET pts == CollisionPoints(p)
        xs == {pts[i][1] : i \in DOMAIN pts}
        ys == {pts[i][2] : i \in DOMAIN pts}
        min_x == CHOOSE v \in xs : \A w \in xs : v <= w
        max_x == CHOOSE v \in xs : \A w \in xs : v >= w
        min_y == CHOOSE v \in ys : \A w \in ys : v <= w
        max_y == CHOOSE v \in ys : \A w \in ys : v >= w
    IN  \E tile_y \in (min_y \div tm.tile_height)..(max_y \div tm.tile_height),
           tile_x \in (min_x \div tm.tile_width)..(max_x \div tm.tile_width) :
            /\ 0 <= tile_x /\ tile_x < tm.map_width
            /\ 0 <= tile_y /\ tile_y < tm.map_height
            /\ LET index == tile_y * tm.map_width + tile_x
               IN  /\ index \in DOMAIN c.collision_map
                   /\ c.collision_map[index]
            /\ \E i \in DOMAIN pts :
                  /\ tile_x * tm.tile_width <= pts[i][1]
                  /\ pts[i][1] < (tile_x + 1) * tm.tile_width
                  /\ tile_y * tm.tile_height <= pts[i][2]
                  /\ pts[i][2] < (tile_y + 1) * tm.tile_height

\* Player.check_collision raises ZeroDivisionError at lines 260-261 when the
\* tilemap has a zero tile size
CheckCollisionRaises(tm) == tm.tile_height = 0 \/ tm.tile_width = 0

\* only the top-left sample point is tested
CheckCollision_FirstPointOnly(p, tm, c) ==
    IsPositionCollidable(c, F(CollisionPoints(p)[1][1]),
                            F(CollisionPoints(p)[1][2]))

\* Player.check_collision
CheckCollision(p, tm, c) ==
    \/ TileHit(p, tm, c)
    \/ \E i \in DOMAIN CollisionPoints(p) :
          IsPositionCollidable(c, F(CollisionPoints(p)[i][1]),
                                  F(CollisionPoints(p)[i][2]))

\* lines 103-124: the input vector of the pressed keys
InputVector(keys) ==
    LET dx == (IF keys.left THEN -1 ELSE 0) + (IF keys.right THEN 1 ELSE 0)
        dy == (IF keys.up THEN -1 ELSE 0) + (IF keys.down THEN 1 ELSE 0)
    IN  IF dx # 0 /\ dy # 0
        THEN <<RMul(F(dx), Diagonal), RMul(F(dy), Diagonal)>>
        ELSE <<F(dx), F(dy)>>

\* lines 131-138: the target position, clamped when boundaries are set
Target(p, d) ==
    LET new_float_x == RAdd(p.float_x, RMul(d[1], p.speed))
        new_float_y == RAdd(p.float_y, RMul(d[2], p.speed))
    IN  IF p.map_width > 0 /\ p.map_height > 0
        THEN << RMax(F(0), RMin(new_float_x, F(p.map_width - p.width))),
                RMax(F(0), RMin(new_float_y, F(p.map_height - p.height))) >>
        ELSE <<new_float_x, new_float_y>>

\* line 143
StepSize(p) == RMin(RDiv(p.speed, F(2)), F(1))

\* line 148
StepCount(p, total_dx, total_dy) ==
    Max(1, RInt(RDiv(RMax(RAbs(total_dx), RAbs(total_dy)), StepSize(p))))

\* the intermediate position of sub-step `step` (lines 153-154)
StepTarget(old, total, step, steps) ==
    RAdd(old, RDiv(RMul(total, F(step)), F(steps)))

\* the value of an expression, computed once
Value(v) == CHOOSE x \in {v} : TRUE

\* the sub-step loop (lines 151-180).  s carries the player, old_float_x,
\* old_float_y and what the loop did: which axis blocked, in which sub-step.
RECURSIVE SubSteps(_, _, _, _, _, _, _)
SubSteps(s, tm, c, total_dx, total_dy, step, steps) ==
    IF step > steps THEN s
    ELSE LET step_x == StepTarget(s.old_float_x, total_dx, step, steps)
             step_y == StepTarget(s.old_float_y, total_dy, step, steps)
             px == [s.p EXCEPT !.float_x = step_x, !.x = RInt(step_x)]
             py == [px EXCEPT !.float_y = step_y, !.y = RInt(step_y)]
         IN  IF CheckCollision(px, tm, c)
             THEN [s EXCEPT !.p = [@ EXCEPT !.float_x = s.old_float_x,
                                            !.x = RInt(s.old_float_x)],
                            !.blocked = "x", !.at = step,
                            !.step_x = step_x, !.step_y = step_y]
             ELSE IF CheckCollision(py, tm, c)
             THEN [s EXCEPT !.p = [px EXCEPT !.float_y = s.old_float_y,
                                             !.y = RInt(s.old_float_y)],
                            !.blocked = "y", !.at = step,
                            !.step_x = step_x, !.step_y = step_y]
             ELSE SubSteps(Value([s EXCEPT !.p = py,
                                           !.old_float_x = step_x,
                                           !.old_float_y = step_y,
                                           !.max_jump = RMax(@, RMax(
                                               RAbs(RSub(step_x, s.old_float_x)),
                                               RAbs(RSub(step_y, s.old_float_y))))]),
                           tm, c, total_dx, total_dy, step + 1, steps)

\* lines 126-186: the position part of Player.update.  has_map is the
\* truth value of the tilemap argument.
Move(p, keys, has_map, tm, c) ==
    LET d == InputVector(keys)
        t == Target(p, d)
        total_dx == RSub(t[1], p.float_x)
        total_dy == RSub(t[2], p.float_y)
        steps == StepCount(p, total_dx, total_dy)
        s0 == [ p |-> p, old_float_x |-> p.float_x, old_float_y |-> p.float_y,
                blocked |-> "none", at |-> 0, steps |-> steps,
                step_x |-> p.float_x, step_y |-> p.float_y,
                max_jump |-> F(0) ]
    IN  IF has_map
        THEN SubSteps(s0, tm, c, total_dx, total_dy, 1, steps)
        ELSE [s0 EXCEPT !.p = [p EXCEPT !.float_x = t[1], !.float_y = t[2],
                                        !.x = RInt(t[1]), !.y = RInt(t[2])]]

\* a tie between the axes goes to the horizontal one
Facing_TiesHorizontal(p, d) ==
    IF d[1].n # 0 \/ d[2].n # 0
    THEN IF ~RLt(RAbs(d[1]), RAbs(d[2]))
         THEN (IF d[1].n > 0 THEN "right" ELSE "left")
         ELSE (IF d[2].n > 0 THEN "down" ELSE "up")
    ELSE p.direction

\* lines 188-196
Facing(p, d) ==
    IF d[1].n # 0 \/ d[2].n # 0
    THEN IF RLt(RAbs(d[2]), RAbs(d[1]))
         THEN (IF d[1].n > 0 THEN "right" ELSE "left")
         ELSE (IF d[2].n > 0 THEN "down" ELSE "up")
    ELSE p.direction

\* the number of sub-steps the tick will make (lines 146-148)
TickSteps(p, keys) ==
    LET t == Target(p, InputVector(keys))
    IN  StepCount(p, RSub(t[1], p.float_x), RSub(t[2], p.float_y))

\* the continuous position is compared instead of the pixel position
Moving_Continuous(p, q) == p.float_x # q.float_x \/ p.float_y # q.float_y

\* lines 91 and 199: prev_x != self.x or prev_y != self.y
Moving(p, q) == p.x # q.x \/ p.y # q.y

\* the CollisionManager after Player.check_collision returned: it writes
\* the player's collision_points (line 251) and reads the manager
AfterCheckCollision(c, p) == c

\* the CollisionManager after Player.update returned: the loop writes the
\* player's position and calls check_collision
AfterPlayerUpdate(c, p, keys) == c

\* Player.update: the pose after the tick and the trace of the loop
PlayerUpdate(p, keys, has_map, tm, c) ==
    LET s == Move(p, keys, has_map, tm, c)
    IN  [s EXCEPT !.p = [@ EXCEPT
            !.direction = Facing(p, InputVector(keys)),
            !.moving = Moving(p, s.p)]]

-----------------------------------------------------------------------------
(* The documents the runs load *)

MaxTileCount == 2
MaxGid == 6
ProbeMargin == 40
TileProbeMargin == 8

MapPath == "data/assets/maps/test_map.tmj"
PathA == "data/assets/tilesets/a.tsj"
PathB == "data/assets/tilesets/b.tsj"

\* absent, or the value of a collidable property
Flags == {<< >>, S_true, S_True, S_false}

PropList(flag) ==
    << [name |-> S_collidable, type |-> "string", value |-> flag] >>

\* a tileset document; tile_flags[i + 1] is the flag of local id i
TilesetDoc(name, tilecount, set_flag, tile_flags) ==
    LET ids == SelectSeq([i \in 1..tilecount |-> i - 1],
                         LAMBDA i : tile_flags[i + 1] # << >>)
        tiles == [k \in 1..Len(ids) |->
                     [id |-> ids[k], properties |-> PropList(tile_flags[ids[k] + 1])]]
    IN  [name |-> name, tilecount |-> tilecount, columns |-> tilecount,
         tilewidth |-> 16, tileheight |-> 16]
        @@ (IF set_flag = << >> THEN << >> ELSE [properties |-> PropList(set_flag)])
        @@ (IF ids = << >> THEN << >> ELSE [tiles |-> tiles])

TilesetDocs ==
    {TilesetDoc(name, n, sf, tf) :
        name \in {S_Water, S_Grass}, n \in {MaxTileCount}, sf \in Flags,
        tf \in [1..MaxTileCount -> Flags \ {S_True}]}
    \cup
    {TilesetDoc(name, 1, sf, tf) :
        name \in {S_Water, S_Grass}, sf \in {<< >>, S_false},
        tf \in [1..1 -> {<< >>, S_true}]}

\* tileset b: two tiles, local id 1 flagged
DocB == TilesetDoc(S_Grass, 2, << >>, <<<< >>, S_true>>)

TileLayer(name, visible, data) ==
    [type |-> "tilelayer", name |-> name, visible |-> visible, data |-> data]

ObjectLayer(name, objects) ==
    [type |-> "objectgroup", name |-> name, objects |-> objects]

MapDoc(width, height, tilesets, layers) ==
    [tilewidth |-> 16, tileheight |-> 16, width |-> width, height |-> height,
     tilesets |-> tilesets, layers |-> layers]

\* a 3 x 2 map over tilesets a and b: a visible tile layer, one that does not
\* say whether it is visible, an invisible one and one whose data is short
TileScenario(doc_a) ==
    LET gid_b == 1 + doc_a.tilecount
    IN  [ map_path |-> MapPath,
          files |->
            (MapPath :> MapDoc(3, 2,
                << [firstgid |-> 1, source |-> PathA],
                   [firstgid |-> gid_b, source |-> PathB] >>,
                << TileLayer(S_Ground, TRUE, <<1, 2, gid_b, gid_b + 1, 0, 1>>),
                   [type |-> "tilelayer", name |-> S_Grass,
                    data |-> <<0, 0, 0, 0, 0, 2>>],
                   TileLayer(S_Water, FALSE,
                             <<gid_b + 1, 2, gid_b + 1, 2, gid_b + 1, 2>>),
                   TileLayer(S_Unknown, TRUE, <<0, 0, gid_b + 1>>) >>))
            @@ (PathA :> doc_a) @@ (PathB :> DocB) ]

\* the end-to-end map: 10 x 10, tile id 3 of tileset a flagged, gid 4 at (2, 2)
EndToEndScenario ==
    [ map_path |-> MapPath,
      files |->
        (MapPath :> MapDoc(10, 10,
            << [firstgid |-> 1, source |-> PathA] >>,
            << TileLayer(S_Ground, TRUE,
                   [i \in 1..100 |-> IF i = 2 * 10 + 2 + 1 THEN 4 ELSE 0]) >>))
        @@ (PathA :> [name |-> S_Grass, tilecount |-> 4, columns |-> 4,
                      tilewidth |-> 16, tileheight |-> 16,
                      tiles |-> << [id |-> 3, properties |-> PropList(S_true)] >>]) ]

\* rectangle and ellipse objects, some reaching left of or above the map,
\* two reaching beyond its right and bottom edges
BoxObjects ==
    {[x |-> x, y |-> y, width |-> w, height |-> h] @@ e :
        x \in {-40, 8}, y \in {-24, 8}, w \in {16, 48}, h \in {24},
        e \in {<< >>, [ellipse |-> TRUE]}}
    \cup {[x |-> 8, y |-> 8, width |-> 0, height |-> 24, ellipse |-> TRUE],
          [x |-> 8, y |-> 8, width |-> 16, height |-> 0]}
    \cup {[x |-> 40, y |-> 32, width |-> 48, height |-> 24],
          [x |-> 40, y |-> 32, width |-> 48, height |-> 24, ellipse |-> TRUE]}

\* ellipse objects whose width or height is negative: load_collision_objects
\* skips an extent of zero only (lines 102-104)
ReversedObjects ==
    {[x |-> 40, y |-> 8, width |-> -16, height |-> 24, ellipse |-> TRUE],
     [x |-> 8, y |-> 40, width |-> 16, height |-> -24, ellipse |-> TRUE]}

\* point lists: two convex quadrilaterals, a chevron and a triangle
Diamond == << [x |-> 16, y |-> 0], [x |-> 32, y |-> 12],
              [x |-> 16, y |-> 24], [x |-> 0, y |-> 12] >>
Trapezoid == << [x |-> 0, y |-> 0], [x |-> 40, y |-> 0],
                [x |-> 32, y |-> 16], [x |-> 8, y |-> 16] >>
Chevron == << [x |-> 0, y |-> 0], [x |-> 16, y |-> 24],
              [x |-> 32, y |-> 0], [x |-> 16, y |-> 32] >>
Triangle == << [x |-> 0, y |-> 0], [x |-> 24, y |-> 0], [x |-> 0, y |-> 24] >>

PolygonObjects ==
    {[x |-> x, y |-> y, width |-> 0, height |-> 0, polygon |-> pts] :
        x \in {-40, 8}, y \in {-24, 8},
        pts \in {Diamond, Trapezoid, Chevron, Triangle}}

\* a 4 x 3 map with one collidable tile, one object in a collision layer
\* and one object in a layer that is no collision layer
ShapeScenario(obj) ==
    [ map_path |-> MapPath,
      files |->
        (MapPath :> MapDoc(4, 3,
            << [firstgid |-> 1, source |-> PathB] >>,
            << TileLayer(S_Ground, TRUE, <<1, 1, 1, 1, 1, 1, 1, 1, 1, 1, 1, 2>>),
               ObjectLayer(S_Collision, <<obj>>),
               ObjectLayer(S_Grass, << [x |-> 0, y |-> 0,
                                        width |-> 16, height |-> 16] >>) >>))
        @@ (PathB :> DocB) ]

\* a 4 x 3 map with two collision layers of several objects around a tile
\* layer: a rectangle, a polygon that has a width and a height, an object of
\* height zero, an ellipse, a point object and a polygon without extent
LayeredShapeScenario ==
    [ map_path |-> MapPath,
      files |->
        (MapPath :> MapDoc(4, 3,
            << [firstgid |-> 1, source |-> PathB] >>,
            << ObjectLayer(S_Collision,
                   << [x |-> 8, y |-> 8, width |-> 16, height |-> 24],
                      [x |-> 24, y |-> 8, width |-> 24, height |-> 24,
                       polygon |-> Triangle],
                      [x |-> 8, y |-> 8, width |-> 16, height |-> 0] >>),
               TileLayer(S_Ground, TRUE, <<1, 1, 1, 1, 1, 1, 1, 1, 1, 1, 1, 2>>),
               ObjectLayer(S_Grass, << [x |-> 0, y |-> 0,
                                        width |-> 16, height |-> 16] >>),
               ObjectLayer(S_COLLISION,
                   << [x |-> 40, y |-> 24, width |-> 16, height |-> 16,
                       ellipse |-> TRUE],
                      [x |-> 8, y |-> 40, width |-> 0, height |-> 0],
                      [x |-> 8, y |-> 24, width |-> 0, height |-> 0,
                       polygon |-> Diamond] >>) >>))
        @@ (PathB :> DocB) ]

\* a file that is no valid JSON
CorruptDoc == [corrupt |-> TRUE]

\* the map file is missing, or is no valid JSON
BrokenMapScenarios ==
    { [map_path |-> MapPath, files |-> (PathB :> DocB)],
      [map_path |-> MapPath, files |-> (MapPath :> CorruptDoc) @@ (PathB :> DocB)] }

\* JSON that parses but is no object, such as []
NotObjectDoc == [not_object |-> TRUE]

\* tileset a: two tiles, the set flagged collidable
DocA == TilesetDoc(S_Grass, 2, S_true, << << >>, << >> >>)

\* a 3 x 2 map over tilesets a (gids 1, 2) and b (gids 3, 4) of which one
\* file is good and the other is missing, no valid JSON or no JSON object
BrokenTilesetScenarios ==
    LET doc == MapDoc(3, 2,
                   << [firstgid |-> 1, source |-> PathA],
                      [firstgid |-> 3, source |-> PathB] >>,
                   << TileLayer(S_Ground, TRUE, <<1, 2, 3, 4, 0, 4>>) >>)
        Bad == {<< >>, CorruptDoc, NotObjectDoc}
        put(path, d) == IF d = << >> THEN << >> ELSE (path :> d)
    IN  {[map_path |-> MapPath,
          files |-> (MapPath :> doc) @@ put(PathA, a) @@ put(PathB, b)] :
            a \in Bad \cup {DocA}, b \in Bad \cup {DocB}}

S_yes == <<"y", "e", "s">>

\* values of a collidable property that are not "true" in any letter case
UntrueValues == {S_false, S_yes, J_true, J_false, J_one}

\* a 3 x 2 map over one tileset of two tiles whose collidable property, on
\* the tileset or on local id 1, has the value v; local id 0 may be flagged
\* "true" before it
TypedFlagScenario(v, level, first) ==
    LET prop == << [name |-> S_collidable, value |-> v] >>
        flagged == IF first THEN << [id |-> 0, properties |-> PropList(S_true)] >>
                   ELSE << >>
        doc == [name |-> S_Grass, tilecount |-> 2, columns |-> 2,
                tilewidth |-> 16, tileheight |-> 16]
               @@ (IF level = "tileset" THEN [properties |-> prop] ELSE << >>)
               @@ (IF level = "tile"
                   THEN [tiles |-> flagged \o << [id |-> 1, properties |-> prop] >>]
                   ELSE IF first THEN [tiles |-> flagged] ELSE << >>)
    IN  [ map_path |-> MapPath,
          files |->
            (MapPath :> MapDoc(3, 2,
                << [firstgid |-> 1, source |-> PathA] >>,
                << TileLayer(S_Ground, TRUE, <<1, 2, 0, 0, 2, 1>>) >>))
            @@ (PathA :> doc) ]

TypedFlagScenarios ==
    {TypedFlagScenario(v, level, first) :
        v \in UntrueValues, level \in {"tileset", "tile"}, first \in BOOLEAN}

BuildScenarios ==
    {TileScenario(d) : d \in TilesetDocs}
    \cup TypedFlagScenarios
    \cup BrokenTilesetScenarios
    \cup {EndToEndScenario}
    \cup {ShapeScenario(o) : o \in BoxObjects \cup PolygonObjects}
    \cup {ShapeScenario(o) : o \in ReversedObjects}
    \cup {LayeredShapeScenario}
    \cup BrokenMapScenarios

-----------------------------------------------------------------------------
(* The points queried *)

ProbeResidues == {0, 1, 7}

ProbeCoords(lo, hi) == {v \in lo..hi : v % 8 \in ProbeResidues}

RECURSIVE SumX(_)
SumX(pts) == IF pts = << >> THEN 0 ELSE Head(pts).x + SumX(Tail(pts))
RECURSIVE SumY(_)
SumY(pts) == IF pts = << >> THEN 0 ELSE Head(pts).y + SumY(Tail(pts))

\* the mean of a polygon object's vertices, in pixels
Centroid(obj) ==
    << RAdd(F(obj.x), Rat(SumX(obj.polygon), Len(obj.polygon))),
       RAdd(F(obj.y), Rat(SumY(obj.polygon), Len(obj.polygon))) >>

\* the centre of a rectangle or ellipse object, in pixels
Centre(obj) ==
    << RAdd(F(obj.x), Rat(obj.width, 2)), RAdd(F(obj.y), Rat(obj.height, 2)) >>

\* the objects of the collision layers of a map document
CollisionLayerObjects(doc) ==
    LET L == Get(doc, "layers", << >>)
    IN  UNION {{L[l].objects[i] : i \in DOMAIN L[l].objects} :
                  l \in {k \in DOMAIN L : IsCollisionLayer(L[k])}}

MapObjects == CollisionLayerObjects(files[map_path])

\* pixel points on a lattice around the map, and the middle of every object
Probes ==
    LET m == IF MapObjects = {} THEN TileProbeMargin ELSE ProbeMargin
    IN  {<<F(x), F(y)>> :
            x \in ProbeCoords(-m, tilemap.map_width * tilemap.tile_width + m),
            y \in ProbeCoords(-m, tilemap.map_height * tilemap.tile_height + m)}
        \cup {IF Has(o, "polygon") THEN Centroid(o) ELSE Centre(o) : o \in MapObjects}

-----------------------------------------------------------------------------
(* Loading a map step by step, then querying it *)

NoQuery == [kind |-> "none"]
\* Game.map = None (game.py line 58), before any load_map
NoMap == [none |-> TRUE, loads |-> 0]
NoTick == [blocked |-> "never"]

InitBuild ==
    /\ \E sc \in BuildScenarios : files = sc.files /\ map_path = sc.map_path
    /\ tilemap = NewTileMap
    /\ cm = NoneVal
    /\ pc = "init"
    /\ query = NoQuery
    /\ player = NewPlayer(0, 0, 600)
    /\ tick = 0
    /\ last = NoTick
    /\ game_map = NoMap

\* TileMap.__init__ and load_map up to line 67; when a tileset load raises,
\* the constructor raises and no TileMap is returned
LoadMapStart ==
    /\ pc = "init"
    /\ IF Readable(files, map_path)
       THEN IF LoadRaises(files, map_path)
            THEN /\ tilemap' = NewTileMap
                 /\ cm' = NoneVal
                 /\ pc' = "raised"
            ELSE /\ tilemap' = ReadMap(NewTileMap, files, map_path)
                 /\ cm' = NewCollisionManager(
                              tilemap'.tile_width, tilemap'.tile_height,
                              tilemap'.map_width, tilemap'.map_height)
                 /\ pc' = "layers"
       ELSE /\ tilemap' = NewTileMap
            /\ cm' = NoneVal
            /\ pc' = "failed"
    /\ UNCHANGED <<game_map, files, map_path, query, player, tick, last>>

\* load_map line 70
StepLoadObjects ==
    /\ pc = "layers"
    /\ cm' = LoadCollisionObjects(cm, tilemap.layers,
                                  tilemap.tile_width, tilemap.tile_height)
    /\ pc' = "objects"
    /\ UNCHANGED <<game_map, files, map_path, tilemap, query, player, tick, last>>

\* load_map line 73
StepIdentify ==
    /\ pc = "objects"
    /\ IF IdentifyRaises(tilemap.tileset_images)
       THEN /\ cm' = IdentifyUntilRaise(cm, tilemap.tileset_images)
            /\ pc' = "raised"
       ELSE /\ cm' = IdentifyCollidableTiles(cm, tilemap.tileset_images)
            /\ pc' = "identified"
    /\ UNCHANGED <<game_map, files, map_path, tilemap, query, player, tick, last>>

\* load_map line 76
StepBuild ==
    /\ pc = "identified"
    /\ cm' = BuildCollisionMap(cm, tilemap.layers)
    /\ pc' = "built"
    /\ UNCHANGED <<game_map, files, map_path, tilemap, query, player, tick, last>>

\* TileMap.is_tile_collidable; a run makes one query, which changes nothing
\* but `query`
QueryTile ==
    /\ pc = "built"
    /\ query = NoQuery
    /\ \E g \in 0..MaxGid :
          query' = [kind |-> "tile", gid |-> g, result |-> IsTileCollidable(cm, g)]
    /\ UNCHANGED <<game_map, files, map_path, tilemap, cm, pc, player, tick, last>>

\* TileMap.is_position_collidable
QueryPosition ==
    /\ pc = "built"
    /\ query = NoQuery
    /\ \E pt \in Probes :
          query' = [kind |-> "position", x |-> pt[1], y |-> pt[2],
                    result |-> IsPositionCollidable(cm, pt[1], pt[2])]
    /\ UNCHANGED <<game_map, files, map_path, tilemap, cm, pc, player, tick, last>>

\* TileMap.is_tile_collidable or TileMap.is_position_collidable on the
\* TileMap whose load_map returned at line 41: collision_manager is None
QueryFailedMap ==
    /\ pc = "failed"
    /\ query = NoQuery
    /\ QueryRaises(cm)
    /\ \E op \in {"is_tile_collidable", "is_position_collidable"} :
          query' = [kind |-> "raised", op |-> op, error |-> "AttributeError"]
    /\ UNCHANGED <<game_map, files, map_path, tilemap, cm, pc, player, tick, last>>

\* load_collision_objects, identify_collidable_tiles and build_collision_map
\* called once more on the CollisionManager that is already built
BuildAgain ==
    /\ pc = "built"
    /\ query = NoQuery
    /\ cm' = BuildIndex(cm, tilemap)
    /\ pc' = "rebuilt"
    /\ UNCHANGED <<game_map, files, map_path, tilemap, query, player, tick, last>>

NextBuild ==
    \/ LoadMapStart
    \/ StepLoadObjects
    \/ StepIdentify
    \/ StepBuild
    \/ QueryTile
    \/ QueryPosition
    \/ QueryFailedMap
    \/ BuildAgain

Spec == InitBuild /\ [][NextBuild]_vars

-----------------------------------------------------------------------------
(* What the documents say, read without the code under test *)

MapDocument == files[map_path]

\* the tileset references of the map whose file loads
LoadedRefs ==
    LET R == Get(MapDocument, "tilesets", << >>)
    IN  {R[i] : i \in {j \in DOMAIN R : Readable(files, R[j].source)}}

\* the property list holds collidable with one of the given spellings
DocFlag(d, spellings) ==
    /\ Has(d, "properties")
    /\ \E i \in DOMAIN d.properties :
          /\ d.properties[i].name = S_collidable
          /\ d.properties[i].value \in spellings

DocRange(ref) ==
    {g \in 0..MaxGid + MaxTileCount :
        ref.firstgid <= g /\ g < ref.firstgid + files[ref.source].tilecount}

DocTiles(ref) ==
    LET T == Get(files[ref.source], "tiles", << >>) IN {T[i] : i \in DOMAIN T}

\* g is marked by a tileset-level or a tile-level property
MarkedByProperty(g, spellings) ==
    \E ref \in LoadedRefs :
        \/ DocFlag(files[ref.source], spellings) /\ g \in DocRange(ref)
        \/ \E t \in DocTiles(ref) :
              DocFlag(t, spellings) /\ g = ref.firstgid + t.id

\* g lies in a tileset named Water of which a tile entry is flagged
MarkedByWaterRule(g, spellings) ==
    \E ref \in LoadedRefs :
        /\ files[ref.source].name = S_Water
        /\ g \in DocRange(ref)
        /\ \E t \in DocTiles(ref) : DocFlag(t, spellings)

AnyCase == {S_true, S_True}

\* C4 as stated: is_tile_collidable(g) is true exactly for the gids that a
\* tileset-level or tile-level collidable="true" property marks, and false
\* for every other gid.
C4_Original ==
    query.kind = "tile" =>
        (query.result <=> MarkedByProperty(query.gid, {S_true}))

\* C4 amended: is_tile_collidable(g) is true exactly for the gids marked by
\* a tileset-level or tile-level collidable property whose value is "true"
\* in any letter case, or lying in the id range of a tileset named "Water"
\* that has at least one tile entry so flagged; it is false for every other.
C4_TileCollidableExactly ==
    query.kind = "tile" =>
        (query.result <=>
            \/ MarkedByProperty(query.gid, AnyCase)
            \/ MarkedByWaterRule(query.gid, AnyCase))

\* a gid answered collidable that only a property spelled "True" marks
C4_Witness ==
    /\ query.kind = "tile"
    /\ query.result
    /\ MarkedByProperty(query.gid, {S_True})
    /\ ~MarkedByProperty(query.gid, {S_true})
    /\ ~MarkedByWaterRule(query.gid, AnyCase)

InBounds(x, y) ==
    /\ RLe(F(0), x) /\ RLt(x, F(tilemap.map_width * tilemap.tile_width))
    /\ RLe(F(0), y) /\ RLt(y, F(tilemap.map_height * tilemap.tile_height))

\* the dense grid cell under a point of the map is occupied
CellOccupied(x, y) ==
    cm.collision_map[(y.n \div (y.d * tilemap.tile_height)) * tilemap.map_width
                     + (x.n \div (x.d * tilemap.tile_width))]

AtPoint(x, y) ==
    query.kind = "position" /\ query.x = F(x) /\ query.y = F(y)

\* C10: on a map with no collision shapes a query at an in-bounds point is
\* true iff the dense grid cell (floor(x / tile_width), floor(y / tile_height))
\* is occupied; on the 10 x 10 end-to-end map the point (33, 33) is blocked
\* and the point (0, 0) is not.
C10_TileQuery ==
    /\ (/\ query.kind = "position"
        /\ MapObjects = {}
        /\ InBounds(query.x, query.y))
       => (query.result <=> CellOccupied(query.x, query.y))
    /\ (files = EndToEndScenario.files /\ AtPoint(33, 33)) => query.result
    /\ (files = EndToEndScenario.files /\ AtPoint(0, 0)) => ~query.result

\* the end-to-end map answered blocked at (33, 33)
C10_Witness ==
    files = EndToEndScenario.files /\ AtPoint(33, 33) /\ query.result

\* the broad-phase cells the bounding box of a map object overlaps
BoxCells(o) ==
    LET xs == IF Has(o, "polygon")
              THEN {o.x + o.polygon[i].x : i \in DOMAIN o.polygon}
              ELSE {o.x, o.x + o.width}
        ys == IF Has(o, "polygon")
              THEN {o.y + o.polygon[i].y : i \in DOMAIN o.polygon}
              ELSE {o.y, o.y + o.height}
        lo(S) == CHOOSE v \in S : \A w \in S : v <= w
        hi(S) == CHOOSE v \in S : \A w \in S : v >= w
    IN  {<<cx, cy>> :
            cx \in (lo(xs) \div grid_cell_size)..(hi(xs) \div grid_cell_size),
            cy \in (lo(ys) \div grid_cell_size)..(hi(ys) \div grid_cell_size)}

\* the map object became a shape
IsShape(o) == Has(o, "polygon") \/ (o.width # 0 /\ o.height # 0)

\* shape index i is registered in the cell
Registered(i, cell) ==
    /\ cell \in DOMAIN cm.spatial_grid
    /\ \E k \in DOMAIN cm.spatial_grid[cell] : cm.spatial_grid[cell][k] = i

\* the shape index of a map object: its position in collision_objects
ShapeIndexOf(o) ==
    {i \in DOMAIN cm.collision_objects :
        << cm.collision_objects[i] >>
            = ObjectShapes(o, tilemap.tile_width, tilemap.tile_height)}

\* the object has no negative width or height
Forward(o) ==
    Has(o, "polygon") \/ (Get(o, "width", 0) >= 0 /\ Get(o, "height", 0) >= 0)

\* C6 as stated: after _build_spatial_grid every shape index is in the list
\* of every broad-phase cell its bounding box overlaps, cells with negative
\* coordinates included.
C6_Original ==
    pc = "built" =>
        \A o \in {q \in MapObjects : IsShape(q)} :
            \A i \in ShapeIndexOf(o) : \A cell \in BoxCells(o) :
                Registered(i, cell)

\* the same for the cells with no negative coordinate
SpatialGridCoversNonNegativeCells ==
    pc = "built" =>
        \A o \in {q \in MapObjects : IsShape(q) /\ Forward(q)} :
            \A i \in ShapeIndexOf(o) :
                \A cell \in {c \in BoxCells(o) : c[1] >= 0 /\ c[2] >= 0} :
                    Registered(i, cell)

\* nothing but the one shape of the map can block the query point
NothingElseBlocks ==
    /\ Cardinality(MapObjects) = 1
    /\ ~TileBlocked(cm, query.x, query.y)

IsRectangle(o) == ~Has(o, "polygon") /\ ~Get(o, "ellipse", FALSE)
IsEllipse(o) == ~Has(o, "polygon") /\ Get(o, "ellipse", FALSE)

InsideRectangle(o, x, y) ==
    /\ RLe(F(o.x), x) /\ RLt(x, F(o.x + o.width))
    /\ RLe(F(o.y), y) /\ RLt(y, F(o.y + o.height))

\* C7 as stated: with a Rectangle registered the query is true at every
\* point of the half-open intervals [x, x + w) x [y, y + h) and, when
\* nothing else blocks the point, false at every point outside them.
C7_Original ==
    query.kind = "position" =>
        \A o \in {q \in MapObjects : IsRectangle(q) /\ IsShape(q)} :
            /\ InsideRectangle(o, query.x, query.y) => query.result
            /\ (~InsideRectangle(o, query.x, query.y) /\ NothingElseBlocks)
                  => ~query.result

NonNegative(x, y) == x.n >= 0 /\ y.n >= 0

\* the same for the points with no negative coordinate
RectangleContainmentNonNegative ==
    (query.kind = "position" /\ NonNegative(query.x, query.y)) =>
        \A o \in {q \in MapObjects : IsRectangle(q) /\ IsShape(q)} :
            /\ InsideRectangle(o, query.x, query.y) => query.result
            /\ (~InsideRectangle(o, query.x, query.y) /\ NothingElseBlocks)
                  => ~query.result

\* further from the centre than the semi-axis along the x or the y axis
BeyondSemiAxis(o, x, y) ==
    \/ RLt(Rat(o.width, 2), RAbs(RSub(x, Centre(o)[1])))
    \/ RLt(Rat(o.height, 2), RAbs(RSub(y, Centre(o)[2])))

\* C8 as stated: with an Ellipse registered the query is true at its exact
\* centre and, when nothing else blocks the point, false at every point
\* further than the semi-axis from the centre along either axis; an ellipse
\* of zero width or height blocks no point.
C8_Original ==
    query.kind = "position" =>
        \A o \in {q \in MapObjects : IsEllipse(q)} :
            /\ (IsShape(o) /\ <<query.x, query.y>> = Centre(o)) => query.result
            /\ (IsShape(o) /\ BeyondSemiAxis(o, query.x, query.y)
                    /\ NothingElseBlocks) => ~query.result
            /\ (~IsShape(o) /\ NothingElseBlocks) => ~query.result

\* the same for the centres with no negative coordinate
EllipseContainmentNonNegative ==
    query.kind = "position" =>
        \A o \in {q \in MapObjects : IsEllipse(q)} :
            /\ (IsShape(o) /\ Forward(o) /\ <<query.x, query.y>> = Centre(o)
                    /\ NonNegative(query.x, query.y)) => query.result
            /\ (IsShape(o) /\ BeyondSemiAxis(o, query.x, query.y)
                    /\ NothingElseBlocks) => ~query.result
            /\ (~IsShape(o) /\ NothingElseBlocks) => ~query.result

\* the z component of (b - a) x (c - b)
Turn(a, b, c) == (b.x - a.x) * (c.y - b.y) - (b.y - a.y) * (c.x - b.x)

\* four points that turn the same way at every vertex
IsConvexQuad(o) ==
    /\ Has(o, "polygon")
    /\ Len(o.polygon) = 4
    /\ LET P == o.polygon
           T == {Turn(P[1], P[2], P[3]), Turn(P[2], P[3], P[4]),
                 Turn(P[3], P[4], P[1]), Turn(P[4], P[1], P[2])}
       IN  (\A t \in T : t > 0) \/ (\A t \in T : t < 0)

OutsideBox(o, x, y) ==
    LET xs == {o.x + o.polygon[i].x : i \in DOMAIN o.polygon}
        ys == {o.y + o.polygon[i].y : i \in DOMAIN o.polygon}
    IN  \/ \A v \in xs : RLt(x, F(v))
        \/ \A v \in xs : RLt(F(v), x)
        \/ \A v \in ys : RLt(y, F(v))
        \/ \A v \in ys : RLt(F(v), y)

\* C9 as stated: for a convex quadrilateral registered as a Polygon the
\* query is true at the centroid and, when nothing else blocks the point,
\* false at every point outside the polygon's bounding box.
C9_Original ==
    query.kind = "position" =>
        \A o \in {q \in MapObjects : IsConvexQuad(q)} :
            /\ <<query.x, query.y>> = Centroid(o) => query.result
            /\ (OutsideBox(o, query.x, query.y) /\ NothingElseBlocks)
                  => ~query.result

\* the same for the centroids with no negative coordinate
PolygonContainmentNonNegative ==
    query.kind = "position" =>
        \A o \in {q \in MapObjects : IsConvexQuad(q)} :
            /\ (<<query.x, query.y>> = Centroid(o)
                    /\ NonNegative(query.x, query.y)) => query.result
            /\ (OutsideBox(o, query.x, query.y) /\ NothingElseBlocks)
                  => ~query.result

-----------------------------------------------------------------------------
(* Claims about the dense grid and about queries off the map *)

\* what the map document stores for a cell in one of its layers, if anything
StoredGid(layer, index) ==
    LET data == Get(layer, "data", << >>)
    IN  IF index < Len(data) THEN data[index + 1] ELSE 0

VisibleTileLayer(layer) ==
    layer.type = "tilelayer" /\ Get(layer, "visible", TRUE)

DocLayers == Get(MapDocument, "layers", << >>)

SomeShapeContains(x, y) ==
    \E i \in DOMAIN cm.collision_objects :
        ShapeContains(cm, cm.collision_objects[i], x, y)

\* C12 as stated: at a point whose tile cell lies outside the map the query
\* skips the dense grid and is true iff some collision shape contains the
\* point.
C12_Original ==
    (query.kind = "position" /\ ~InBounds(query.x, query.y))
        => (query.result <=> SomeShapeContains(query.x, query.y))

\* the same for the points off the map with no negative coordinate
OutOfBoundsQueryNonNegative ==
    (/\ query.kind = "position"
     /\ ~InBounds(query.x, query.y)
     /\ NonNegative(query.x, query.y))
        => (query.result <=> SomeShapeContains(query.x, query.y))

\* a point right of or below the map answered blocked by a shape
OutOfBoundsBlocked ==
    /\ query.kind = "position"
    /\ ~InBounds(query.x, query.y)
    /\ NonNegative(query.x, query.y)
    /\ query.result

\* the bounding region of the shape reaches into the tile cell (col, row)
BoxCoversCell(obj, col, row) ==
    /\ ~(obj.type = "polygon" /\ obj.points = << >>)
    /\ LET b == ShapeBox(obj)
       IN  /\ RLt(b.min_x, F(col + 1)) /\ RLt(F(col), b.max_x)
           /\ RLt(b.min_y, F(row + 1)) /\ RLt(F(row), b.max_y)

\* C24 as stated: after the build every cell of the dense grid that the
\* bounding region of some collision shape covers is marked occupied.
C24_Original ==
    pc = "built" =>
        \A row \in 0..(tilemap.map_height - 1), col \in 0..(tilemap.map_width - 1) :
            (\E i \in DOMAIN cm.collision_objects :
                BoxCoversCell(cm.collision_objects[i], col, row))
            => cm.collision_map[row * tilemap.map_width + col]

\* the shape the claim gives for one object of a collision layer: a polygon
\* for a point list, nothing for an object without extent, else an ellipse
\* or a rectangle
ClaimedShape(obj) ==
    LET ox == Get(obj, "x", 0)
        oy == Get(obj, "y", 0)
        w == Get(obj, "width", 0)
        h == Get(obj, "height", 0)
    IN  IF "polygon" \in DOMAIN obj
        THEN << [type |-> "polygon",
                 points |-> [i \in DOMAIN obj.polygon |->
                     << Rat(ox + obj.polygon[i].x, tilemap.tile_width),
                        Rat(oy + obj.polygon[i].y, tilemap.tile_height) >>]] >>
        ELSE IF w = 0 \/ h = 0 THEN << >>
        ELSE << [type |-> IF Get(obj, "ellipse", FALSE) THEN "ellipse"
                                                        ELSE "rectangle",
                 x |-> Rat(ox, tilemap.tile_width),
                 y |-> Rat(oy, tilemap.tile_height),
                 width |-> Rat(w, tilemap.tile_width),
                 height |-> Rat(h, tilemap.tile_height)] >>

NamedCollision(layer) ==
    /\ layer.type = "objectgroup"
    /\ \E i \in 1..Len(layer.name) : \E j \in i..Len(layer.name) :
          Lower(SubSeq(layer.name, i, j)) = S_collision

\* the claimed shapes of the first n objects of a layer, in object order
RECURSIVE ClaimedOfObjects(_, _)
ClaimedOfObjects(objects, n) ==
    IF n = 0 THEN << >>
    ELSE ClaimedOfObjects(objects, n - 1) \o ClaimedShape(objects[n])

\* the claimed shapes of the first n layers, in layer order
RECURSIVE ClaimedOfLayers(_, _)
ClaimedOfLayers(layers, n) ==
    IF n = 0 THEN << >>
    ELSE ClaimedOfLayers(layers, n - 1)
         \o (IF NamedCollision(layers[n])
             THEN ClaimedOfObjects(Get(layers[n], "objects", << >>),
                                   Len(Get(layers[n], "objects", << >>)))
             ELSE << >>)

\* C25: after load_collision_objects the shape list is, in layer order then
\* object order, the shapes of the objects of the object layers whose name
\* contains "collision" in any letter case: a polygon (origin plus point,
\* over the tile size) for a point list whatever width and height, nothing
\* for another object of width or height zero, else an ellipse if flagged
\* and a rectangle otherwise; other layers contribute nothing.
C25_ShapeExtraction ==
    pc \in {"objects", "identified", "built"} =>
        cm.collision_objects = ClaimedOfLayers(DocLayers, Len(DocLayers))

\* the two collision layers of the layered map gave a rectangle, a polygon
\* with a width, an ellipse and a polygon, in that order, and the objects
\* without extent and the object of the other layer gave nothing
C25_Witness ==
    /\ pc = "objects"
    /\ Len(DocLayers) = 4
    /\ Len(cm.collision_objects) = 4
    /\ cm.collision_objects[1].type = "rectangle"
    /\ cm.collision_objects[2].type = "polygon"
    /\ cm.collision_objects[3].type = "ellipse"
    /\ cm.collision_objects[4].type = "polygon"

\* the index one run of the build steps gives for the loaded map
BuiltOnce ==
    BuildIndex(NewCollisionManager(tilemap.tile_width, tilemap.tile_height,
                                   tilemap.map_width, tilemap.map_height),
               tilemap)

\* C13 as stated: the build steps run twice on the same CollisionManager
\* give the occupancy grid, the shape list and the spatial grid that one
\* run gives.
C13_Original ==
    pc = "rebuilt" =>
        /\ cm.collision_map = BuiltOnce.collision_map
        /\ cm.collision_objects = BuiltOnce.collision_objects
        /\ cm.spatial_grid = BuiltOnce.spatial_grid

\* what does hold of the second run: the occupancy grid and the collidable
\* set are those of one run, and the shape list is that of one run twice over
SecondBuildKeepsDenseGrid ==
    pc = "rebuilt" =>
        /\ cm.collision_map = BuiltOnce.collision_map
        /\ cm.collidable_tiles = BuiltOnce.collidable_tiles
        /\ cm.collision_objects
              = BuiltOnce.collision_objects \o BuiltOnce.collision_objects

-----------------------------------------------------------------------------
(* The game loop: Game.load_map, then Player.update every tick *)

MaxTicks == 2
MaxSteps == 24
WallColumn == 18

\* a 20 x 2 corridor closed by a one-tile-wide wall in column WallColumn
CorridorDoc ==
    MapDoc(WallColumn + 2, 2,
        << [firstgid |-> 1, source |-> PathB] >>,
        << TileLayer(S_Ground, TRUE,
               [i \in 1..(2 * (WallColumn + 2)) |->
                   IF (i - 1) % (WallColumn + 2) = WallColumn THEN 2 ELSE 1]) >>)

\* a 4 x 4 room: the third row is wall, and a collision rectangle stands in
\* the top row
RoomDoc ==
    MapDoc(4, 4,
        << [firstgid |-> 1, source |-> PathB] >>,
        << TileLayer(S_Ground, TRUE,
               [i \in 1..16 |-> IF (i - 1) \div 4 = 2 THEN 2 ELSE 1]),
           ObjectLayer(S_Collision,
               << [x |-> 40, y |-> 0, width |-> 16, height |-> 16] >>) >>)

\* the asset directory with the map file, without it, and with a map file
\* that is no valid JSON
MoveFiles ==
    { (MapPath :> CorridorDoc) @@ (PathB :> DocB),
      (MapPath :> RoomDoc) @@ (PathB :> DocB),
      (PathB :> DocB),
      (MapPath :> CorruptDoc) @@ (PathB :> DocB) }

\* where Game.__init__ puts the player and the PLAYER_SPEED of the
\* configuration: 2 pixels per tick, 24 from the left end of the corridor,
\* and a fifth of a pixel per tick
Starts ==
    { [x |-> 0, y |-> 0, speed |-> 600],
      [x |-> 0, y |-> 14, speed |-> 600],
      [x |-> WallColumn * 16 - 12, y |-> 0, speed |-> 600],
      [x |-> 0, y |-> 0, speed |-> 7200],
      [x |-> 0, y |-> 0, speed |-> 60] }

AllKeys == [left : BOOLEAN, right : BOOLEAN, up : BOOLEAN, down : BOOLEAN]

InitMove ==
    /\ files \in MoveFiles
    /\ map_path = MapPath
    /\ tilemap = NewTileMap
    /\ cm = NoneVal
    /\ pc = "init"
    /\ query = NoQuery
    /\ \E st \in Starts : player = NewPlayer(st.x, st.y, st.speed)
    /\ tick = 0
    /\ last = NoTick
    /\ game_map = NoMap

\* Game.load_map: TileMap(map_path) and Player.set_map_boundaries when the
\* file exists, nothing otherwise
GameLoadMap ==
    /\ pc = "init"
    /\ IF map_path \in DOMAIN files
       THEN IF Readable(files, map_path)
            THEN LET tm == ReadMap(NewTileMap, files, map_path)
                 IN  /\ tilemap' = tm
                     /\ cm' = BuildIndex(
                                 NewCollisionManager(tm.tile_width, tm.tile_height,
                                                     tm.map_width, tm.map_height),
                                 tm)
                     /\ player' = SetMapBoundaries(player,
                                      tm.map_width * tm.tile_width,
                                      tm.map_height * tm.tile_height)
                     /\ pc' = "built"
            ELSE /\ tilemap' = NewTileMap
                 /\ cm' = NoneVal
                 /\ player' = SetMapBoundaries(player, 0, 0)
                 /\ pc' = "failed"
       ELSE /\ UNCHANGED <<tilemap, cm, player>>
            /\ pc' = "nomap"
    /\ UNCHANGED <<game_map, files, map_path, query, tick, last>>

\* one iteration of Game.run: Player.update(keys, dt, self.map); ticks of
\* more than MaxSteps sub-steps are not followed
Tick ==
    /\ pc \in {"built", "nomap"}
    /\ tick < MaxTicks
    /\ \E keys \in {k \in AllKeys : TickSteps(player, k) <= MaxSteps} :
          LET s == PlayerUpdate(player, keys, pc = "built", tilemap, cm)
          IN  /\ player' = s.p
              /\ last' = [s EXCEPT !.p = player]
                              @@ [d |-> InputVector(keys), has_map |-> pc = "built"]
    /\ tick' = tick + 1
    /\ UNCHANGED <<game_map, files, map_path, tilemap, cm, pc, query>>

\* one iteration of Game.run on the TileMap of a map file that did not
\* parse: update_collision_cache (game.py line 146) comes first and raises,
\* which ends the loop
TickFailedMap ==
    /\ pc = "failed"
    /\ tick < MaxTicks
    /\ UpdateCollisionCacheRaises(tilemap)
    /\ last' = [blocked |-> "raised", op |-> "update_collision_cache",
                error |-> "ZeroDivisionError",
                update_raises |-> CheckCollisionRaises(tilemap),
                query_raises |-> QueryRaises(cm)]
    /\ pc' = "crashed"
    /\ tick' = tick + 1
    /\ UNCHANGED <<game_map, files, map_path, tilemap, cm, query, player>>

NextMove ==
    \/ GameLoadMap
    \/ Tick
    \/ TickFailedMap

SpecMove == InitMove /\ [][NextMove]_vars

-----------------------------------------------------------------------------
(* Claims about Player.update *)

Ticked == tick > 0 /\ last.blocked \in {"none", "x", "y"}

IsDiagonal(d) == d[1].n # 0 /\ d[2].n # 0

\* the pose the blocked sub-step would have reached by moving along Y alone
\* from the reverted X
YAlone ==
    [player EXCEPT !.float_y = last.step_y, !.y = RInt(last.step_y)]

\* the last tick had a sub-step whose X move was blocked while its Y move,
\* taken alone from the reverted X, was free and not empty
XBlockedYFree ==
    /\ Ticked /\ last.has_map
    /\ IsDiagonal(last.d)
    /\ last.blocked = "x"
    /\ last.step_y # last.old_float_y
    /\ ~CheckCollision(YAlone, tilemap, cm)

\* C1 as stated: when a sub-step's X move is blocked and its Y move alone
\* is not, the tick ends advanced along Y and not advanced along X.
C1_Original ==
    XBlockedYFree =>
        /\ player.float_x = last.old_float_x
        /\ player.float_y = last.step_y

\* what the loop does instead: the blocked X move ends the tick, Y is not tried
XBlockEndsTick ==
    (Ticked /\ last.has_map /\ last.blocked = "x") =>
        /\ player.float_x = last.old_float_x
        /\ player.float_y = last.old_float_y

BoxLeft(p) == p.x + collision_margin
BoxRight(p) == p.x + collision_margin + (p.width - collision_margin * 2) - 1

WallLeft == WallColumn * tilemap.tile_width
WallRight == (WallColumn + 1) * tilemap.tile_width

\* C2 as stated: a tick that starts with the collision box free and left of
\* the one-tile-wide wall never ends with the box on the far side of it,
\* whatever the speed.
C2_Original ==
    (/\ Ticked /\ last.has_map
     /\ ~CheckCollision(last.p, tilemap, cm)
     /\ BoxRight(last.p) < WallLeft)
    => BoxLeft(player) < WallRight

\* the largest sub-step of the last tick is the whole clamped displacement
LastJump == last.max_jump

\* C3 as stated: with boundaries known the position after every tick lies in
\* [0, map_width - width] x [0, map_height - height]; with boundaries unknown
\* the move is not clamped.
C3_Original ==
    Ticked =>
        IF player.map_width > 0 /\ player.map_height > 0
        THEN /\ RLe(F(0), player.float_x)
             /\ RLe(player.float_x, F(player.map_width - player.width))
             /\ RLe(F(0), player.float_y)
             /\ RLe(player.float_y, F(player.map_height - player.height))
             /\ 0 <= player.x /\ player.x <= player.map_width - player.width
             /\ 0 <= player.y /\ player.y <= player.map_height - player.height
        ELSE /\ player.float_x = RAdd(last.p.float_x, RMul(last.d[1], player.speed))
             /\ player.float_y = RAdd(last.p.float_y, RMul(last.d[2], player.speed))

\* the half of C3 that holds: without boundaries the move is not clamped
NoClampWithoutBoundaries ==
    (Ticked /\ ~(player.map_width > 0 /\ player.map_height > 0)) =>
        /\ player.float_x = RAdd(last.p.float_x, RMul(last.d[1], player.speed))
        /\ player.float_y = RAdd(last.p.float_y, RMul(last.d[2], player.speed))

-----------------------------------------------------------------------------
(* Claims about a map that did not load *)

\* C14 as stated: when the map file is missing or is no valid JSON the
\* TileMap is an empty model, and no later per-tick operation on it
\* (Player.update, is_position_collidable, update_collision_cache) raises.
C14_Original ==
    /\ pc = "failed" =>
          /\ tilemap.layers = << >>
          /\ tilemap.map_width = 0 /\ tilemap.map_height = 0
    /\ ~Has(last, "error")

\* what does hold: the failed load leaves zero layers and zero dimensions,
\* and with no map file at all Game holds no map and ticks without collision
FailedLoadLeavesEmptyModel ==
    /\ pc \in {"failed", "crashed"} =>
          /\ tilemap.layers = << >>
          /\ tilemap.map_width = 0 /\ tilemap.map_height = 0
          /\ tilemap.tile_width = 0 /\ tilemap.tile_height = 0
          /\ IsNone(cm)
    /\ (pc = "nomap" /\ Ticked) => last.blocked = "none"

\* the tileset reference whose id range holds g: the one with the largest
\* firstgid not above g
Resolves(g, ref) ==
    LET R == Get(MapDocument, "tilesets", << >>)
    IN  /\ \E i \in DOMAIN R : R[i] = ref
        /\ ref.firstgid <= g
        /\ \A i \in DOMAIN R : R[i].firstgid <= g => R[i].firstgid <= ref.firstgid

\* the file of the reference is missing or is no valid JSON
FileUnparsed(ref) == ~Readable(files, ref.source)

\* the file of the reference is missing or malformed
FileBroken(ref) == FileUnparsed(ref) \/ Has(files[ref.source], "not_object")

\* every layer of the map stores at the cell nothing or a gid of a tileset
\* for which Lost holds
OnlyLostGids(index, Lost(_)) ==
    \A l \in DOMAIN DocLayers :
        LET g == StoredGid(DocLayers[l], index)
        IN  g = 0 \/ \E ref \in {r \in {MapDocument.tilesets[i] :
                                   i \in DOMAIN MapDocument.tilesets} : Lost(r)} :
                        Resolves(g, ref)

\* the gids of tilesets for which Lost holds are not collidable and the
\* cells holding only them are free
LostTilesetsFree(Lost(_)) ==
    /\ pc = "built" =>
          \A index \in DOMAIN cm.collision_map :
              OnlyLostGids(index, Lost) => ~cm.collision_map[index]
    /\ query.kind = "tile" =>
          \A i \in DOMAIN MapDocument.tilesets :
              (Lost(MapDocument.tilesets[i])
                  /\ Resolves(query.gid, MapDocument.tilesets[i]))
                 => ~query.result

\* a map whose tileset list names a file that is missing or malformed
HasBrokenTileset ==
    /\ Readable(files, map_path)
    /\ \E i \in DOMAIN Get(MapDocument, "tilesets", << >>) :
          FileBroken(MapDocument.tilesets[i])

\* C15 as stated: with a tileset file missing or malformed load_map still
\* completes, the index is built from the other tilesets, and every gid
\* resolving to the lost tileset is not collidable, the cells holding it free.
C15_Original ==
    /\ HasBrokenTileset => pc # "raised"
    /\ pc \in {"built", "rebuilt"} => LostTilesetsFree(FileBroken)

\* the same for tileset files that are missing or no valid JSON
UnparsedTilesetsFree ==
    pc \in {"built", "rebuilt"} => LostTilesetsFree(FileUnparsed)

\* a map built although tileset a did not parse, with gid 4 of the good
\* tileset collidable and its cell occupied
UnparsedTilesetBuilt ==
    /\ pc = "built"
    /\ PathA \in {MapDocument.tilesets[i].source : i \in DOMAIN MapDocument.tilesets}
    /\ ~Readable(files, PathA)
    /\ 4 \in cm.collidable_tiles
    /\ cm.collision_map[3]
    /\ ~cm.collision_map[0]

-----------------------------------------------------------------------------
(* Claims about what Player.update reports *)

ContinuousChanged ==
    player.float_x # last.p.float_x \/ player.float_y # last.p.float_y

PixelChanged == player.x # last.p.x \/ player.y # last.p.y

\* C17 as stated: after Player.update moving is true iff the continuous
\* position (float_x, float_y) changed in the tick; a fully blocked tick
\* reports false whatever the input.
C17_Original ==
    Ticked => (player.moving <=> ContinuousChanged)

\* C17 amended: after Player.update moving is true iff the pixel position
\* (x, y), the truncated continuous position, differs from the pre-tick one;
\* a tick that changes only the fractional part reports false, and so does a
\* fully blocked tick whatever the input.
C17_MovingIffPixelChanged ==
    Ticked =>
        /\ player.moving <=> PixelChanged
        /\ (last.blocked = "x" /\ last.at = 1) => ~player.moving

\* a tick that moved the player by less than a pixel and reports not moving
C17_Witness ==
    /\ Ticked
    /\ ContinuousChanged
    /\ ~PixelChanged
    /\ ~player.moving

\* the input vector of the last tick
InputDx == last.d[1]

InputDy == last.d[2]

HorizontalDominates == RLt(RAbs(InputDy), RAbs(InputDx))

\* C18: after Player.update with a non-zero input vector direction is
\* left/right by the sign of dx when |dx| > |dy| and up/down by the sign of
\* dy otherwise (ties go to the vertical axis); with a zero input vector
\* direction is unchanged; blocked and unblocked ticks alike.
C18_Facing ==
    Ticked =>
        IF InputDx.n # 0 \/ InputDy.n # 0
        THEN /\ (HorizontalDominates /\ InputDx.n > 0) => player.direction = "right"
             /\ (HorizontalDominates /\ InputDx.n < 0) => player.direction = "left"
             /\ (~HorizontalDominates /\ InputDy.n > 0) => player.direction = "down"
             /\ (~HorizontalDominates /\ InputDy.n < 0) => player.direction = "up"
        ELSE player.direction = last.p.direction

\* a diagonal input, a tie, whose movement was blocked on the first sub-step
\* and still turned the player from down to up
C18_Witness ==
    /\ Ticked
    /\ last.blocked = "x"
    /\ ~PixelChanged
    /\ InputDx.n # 0
    /\ RAbs(InputDx) = RAbs(InputDy)
    /\ last.p.direction = "down"
    /\ player.direction = "up"

\* the pre-tick position plus direction x speed: what the branch without a
\* tilemap stores when no boundaries are set
Desired ==
    << RAdd(last.p.float_x, RMul(InputDx, last.p.speed)),
       RAdd(last.p.float_y, RMul(InputDy, last.p.speed)) >>

\* a tick with a tilemap in which no sample point was blocked and the clamp
\* left the target alone
UnobstructedTick ==
    /\ Ticked
    /\ last.has_map
    /\ last.blocked = "none"
    /\ Target(last.p, last.d) = Desired

\* C20 as stated: a tick with a tilemap in which nothing blocks and the
\* clamp does not bind ends at the pre-tick position plus direction x speed
\* on each axis, the position the branch without a tilemap produces.
C20_Original ==
    UnobstructedTick =>
        /\ player.float_x = Desired[1]
        /\ player.float_y = Desired[2]

\* what does hold: a tick of a single sub-step ends at the desired position
UnobstructedSingleStep ==
    (UnobstructedTick /\ last.steps = 1) =>
        /\ player.float_x = Desired[1]
        /\ player.float_y = Desired[2]

SingleStepMoved ==
    /\ UnobstructedTick
    /\ last.steps = 1
    /\ PixelChanged

-----------------------------------------------------------------------------
(* Claims about the sub-steps of a tick *)

\* C21 as stated, in its weakest reading: in every tick with a tilemap every
\* sub-step moves the player by less than one tile on each axis, whatever the
\* speed and the sub-step index.
C21_Original ==
    (Ticked /\ last.has_map) =>
        /\ RLt(LastJump, F(tilemap.tile_width))
        /\ RLt(LastJump, F(tilemap.tile_height))

\* what does hold: a tick of a single sub-step moves by the clamped
\* displacement, which is at most the speed
SingleStepJump ==
    (Ticked /\ last.has_map /\ last.steps = 1) =>
        RLe(LastJump, last.p.speed)

\* the displacement from pose p to pose q is diagonal and as long as the
\* axial displacement of length len, up to the rounding of 0.7071: both
\* components have the size 0.7071 x len, which makes the length
\* sqrt(2) x 0.7071 x len
DiagonalOfLength(p, q, len) ==
    /\ RAbs(RSub(q.float_x, p.float_x)) = RMul(Diagonal, len)
    /\ RAbs(RSub(q.float_y, p.float_y)) = RMul(Diagonal, len)

AxialKeys == {k \in AllKeys : InputVector(k) \in {<<F(1), F(0)>>, <<F(-1), F(0)>>,
                                                   <<F(0), F(1)>>, <<F(0), F(-1)>>}}

\* a tick nothing obstructed and the clamp left alone, with or without a
\* tilemap, whose input was diagonal
FreeDiagonalTick ==
    /\ Ticked
    /\ last.blocked = "none"
    /\ Target(last.p, last.d) = Desired
    /\ InputDx.n # 0 /\ InputDy.n # 0

\* the axial tick from the same pose that nothing obstructs either
FreeAxial(k) ==
    LET a == PlayerUpdate(last.p, k, last.has_map, tilemap, cm)
        d == InputVector(k)
    IN  /\ a.blocked = "none"
        /\ Target(last.p, d) = << RAdd(last.p.float_x, RMul(d[1], last.p.speed)),
                                  RAdd(last.p.float_y, RMul(d[2], last.p.speed)) >>

\* the length of the displacement of that axial tick
AxialLen(k) ==
    LET a == PlayerUpdate(last.p, k, last.has_map, tilemap, cm).p
    IN  RAdd(RAbs(RSub(a.float_x, last.p.float_x)),
             RAbs(RSub(a.float_y, last.p.float_y)))

\* C22 as stated: with no obstacle and no clamping the displacement of one
\* tick for a diagonal input is as long, up to the rounding of 0.7071, as
\* the displacement for an axial input at the same speed setting.
C22_Original ==
    FreeDiagonalTick =>
        \A k \in AxialKeys :
            FreeAxial(k) => DiagonalOfLength(last.p, player, AxialLen(k))

\* what does hold: the same in the branch without a tilemap
DiagonalSpeedWithoutTilemap ==
    (FreeDiagonalTick /\ ~last.has_map) =>
        \A k \in AxialKeys :
            FreeAxial(k) => DiagonalOfLength(last.p, player, AxialLen(k))

DiagonalWithoutTilemap == FreeDiagonalTick /\ ~last.has_map

\* the last tick left sub-steps undone: a sub-step before the last one was
\* blocked
StoppedEarly ==
    /\ Ticked /\ last.has_map
    /\ last.blocked \in {"x", "y"}
    /\ last.at < last.steps

\* in the blocked sub-step the X move was blocked and so was the Y move
BothAxesBlocked ==
    /\ last.blocked = "x"
    /\ CheckCollision(YAlone, tilemap, cm)

\* C23 as stated: a tick abandons its remaining sub-steps only after a
\* sub-step in which both the X move and the Y move were blocked; when only
\* the X move was blocked the Y axis covers its full displacement for the
\* tick.
C23_Original ==
    /\ StoppedEarly => BothAxesBlocked
    /\ XBlockedYFree => player.float_y = Target(last.p, last.d)[2]

\* none of the eight sample points of pose p is blocked
NoPointBlocked(p) ==
    \A i \in DOMAIN CollisionPoints(p) :
        ~IsPositionCollidable(cm, F(CollisionPoints(p)[i][1]),
                                  F(CollisionPoints(p)[i][2]))

\* C29: if before a tick none of the player's eight collision sample points
\* is blocked, then after Player.update with that tilemap, for every input
\* and speed, none of the eight sample points computed at the resulting
\* integer position is blocked; a blocked tentative move is reverted to a
\* position that passed the check before.
C29_NoPenetration ==
    (Ticked /\ last.has_map /\ NoPointBlocked(last.p))
      => /\ NoPointBlocked(player)
         /\ last.blocked = "x" =>
               /\ player.float_x = last.old_float_x
               /\ player.float_y = last.old_float_y
         /\ last.blocked = "y" =>
               /\ player.float_x = last.step_x
               /\ player.float_y = last.old_float_y

\* a tick that started free, advanced for some sub-steps and then had its X
\* move into the wall reverted
C29_Witness ==
    /\ Ticked /\ last.has_map /\ NoPointBlocked(last.p)
    /\ last.blocked = "x"
    /\ last.at > 1
    /\ player.x # last.p.x

\* a tick whose Y move was reverted after its X move was kept
YMoveReverted ==
    /\ Ticked /\ last.has_map /\ NoPointBlocked(last.p)
    /\ last.blocked = "y"

-----------------------------------------------------------------------------
(* Game.load_map step by step: the TileMap is constructed, then assigned to
   Game.map; queries of the loop go through Game.map *)

MaxLoads == 2

\* asset directories: the corridor map, no map file, a map file that is no
\* valid JSON, a map with a collision shape, the end-to-end map
LoadFiles ==
    MoveFiles
    \cup {ShapeScenario([x |-> 8, y |-> 8, width |-> 16, height |-> 24]).files,
          EndToEndScenario.files}

InitLoad ==
    /\ files \in LoadFiles
    /\ map_path = MapPath
    /\ tilemap = NewTileMap
    /\ cm = NoneVal
    /\ pc = "init"
    /\ query = NoQuery
    /\ player = NewPlayer(0, 0, 600)
    /\ tick = 0
    /\ last = NoTick
    /\ game_map = NoMap

\* Game.load_map lines 72-73: the file exists, TileMap(map_path) starts
GameLoadBegin ==
    /\ map_path \in DOMAIN files
    /\ LoadMapStart

\* Game.load_map lines 81-82: no file, Game.map stays what it was
GameLoadSkip ==
    /\ pc = "init"
    /\ map_path \notin DOMAIN files
    /\ game_map' = [game_map EXCEPT !.loads = @ + 1]
    /\ pc' = "running"
    /\ UNCHANGED <<files, map_path, tilemap, cm, query, player, tick, last>>

\* Game.load_map lines 73-80: the constructor has returned; self.map is
\* assigned and the player is given the map's pixel size
Publish ==
    /\ pc \in {"built", "failed"}
    /\ game_map' = [tilemap |-> tilemap, cm |-> cm, loads |-> game_map.loads + 1]
    /\ player' = SetMapBoundaries(player,
                     tilemap.map_width * tilemap.tile_width,
                     tilemap.map_height * tilemap.tile_height)
    /\ pc' = "running"
    /\ UNCHANGED <<files, map_path, tilemap, cm, query, tick, last>>

\* the points the loop asks about
LoadProbes == {<<F(0), F(0)>>, <<F(16), F(16)>>, <<F(33), F(33)>>}

\* a query of the loop through Game.map: is_tile_collidable,
\* is_position_collidable or Player.check_collision
GameQuery ==
    /\ pc = "running"
    /\ query = NoQuery
    /\ ~IsNone(game_map)
    /\ IF QueryRaises(game_map.cm)
       THEN /\ \E op \in {"is_tile_collidable", "is_position_collidable"} :
                 query' = [kind |-> "raised", op |-> op, error |-> "AttributeError"]
            /\ UNCHANGED game_map
       ELSE \/ \E g \in 0..MaxGid :
                 /\ query' = [kind |-> "tile", gid |-> g,
                              result |-> IsTileCollidable(game_map.cm, g)]
                 /\ game_map' = [game_map EXCEPT
                                    !.cm = AfterIsTileCollidable(@, g)]
            \/ \E pt \in LoadProbes :
                 /\ query' = [kind |-> "position", x |-> pt[1], y |-> pt[2],
                              result |-> IsPositionCollidable(game_map.cm, pt[1], pt[2])]
                 /\ game_map' = [game_map EXCEPT
                                    !.cm = AfterIsPositionCollidable(@, pt[1], pt[2])]
            \/ /\ query' = [kind |-> "check_collision",
                            result |-> CheckCollision(player, game_map.tilemap,
                                                      game_map.cm)]
               /\ game_map' = [game_map EXCEPT
                                  !.cm = AfterCheckCollision(@, player)]
    /\ UNCHANGED <<files, map_path, tilemap, cm, pc, player, tick, last>>

\* one iteration of Game.run (game.py lines 146-149): update_collision_cache,
\* which raises on a map of tile size zero, then Player.update with Game.map
GameTick ==
    /\ pc = "running"
    /\ query = NoQuery
    /\ tick < MaxTicks
    /\ IF ~IsNone(game_map) /\ UpdateCollisionCacheRaises(game_map.tilemap)
       THEN /\ last' = [blocked |-> "raised", op |-> "update_collision_cache",
                        error |-> "ZeroDivisionError"]
            /\ pc' = "crashed"
            /\ UNCHANGED <<player, game_map>>
       ELSE \E keys \in {k \in AllKeys : TickSteps(player, k) <= MaxSteps} :
               LET has_map == ~IsNone(game_map)
                   tm == IF has_map THEN game_map.tilemap ELSE NewTileMap
                   c == IF has_map THEN game_map.cm ELSE NoneVal
                   s == PlayerUpdate(player, keys, has_map, tm, c)
               IN  /\ player' = s.p
                   /\ last' = [s EXCEPT !.p = player]
                                  @@ [d |-> InputVector(keys), has_map |-> has_map]
                   /\ game_map' = IF has_map
                                  THEN [game_map EXCEPT
                                          !.cm = AfterPlayerUpdate(@, player, keys)]
                                  ELSE game_map
                   /\ pc' = pc
    /\ tick' = tick + 1
    /\ UNCHANGED <<files, map_path, tilemap, cm, query>>

\* Game.load_map called again
LoadAgain ==
    /\ pc = "running"
    /\ game_map.loads < MaxLoads
    /\ tilemap' = NewTileMap
    /\ cm' = NoneVal
    /\ query' = NoQuery
    /\ pc' = "init"
    /\ UNCHANGED <<game_map, files, map_path, player, tick, last>>

NextLoad ==
    \/ GameLoadBegin
    \/ GameLoadSkip
    \/ StepLoadObjects
    \/ StepIdentify
    \/ StepBuild
    \/ Publish
    \/ GameQuery
    \/ GameTick
    \/ LoadAgain

SpecLoad == InitLoad /\ [][NextLoad]_vars

\* the index all build steps give for a loaded TileMap
FullBuild(tm) ==
    BuildIndex(NewCollisionManager(tm.tile_width, tm.tile_height,
                                   tm.map_width, tm.map_height), tm)

\* C16 as stated: whenever Game holds a map its index is one on which all
\* build steps have completed, never absent and never partly built, also
\* while and after a second load_map; no query of the loop finds it absent.
C16_Original ==
    /\ ~IsNone(game_map) =>
          /\ ~IsNone(game_map.cm)
          /\ game_map.cm = FullBuild(game_map.tilemap)
    /\ query.kind # "raised"

\* what does hold: an index Game can reach is never partly built
PublishedIndexNeverPartial ==
    (~IsNone(game_map) /\ ~IsNone(game_map.cm)) =>
        /\ game_map.cm = FullBuild(game_map.tilemap)
        /\ query.kind # "raised"

\* a second load_map is half way while Game still holds the first map
SecondLoadUnderWay ==
    /\ pc = "identified"
    /\ ~IsNone(game_map)
    /\ ~IsNone(game_map.cm)
    /\ cm # game_map.cm

\* the four parts of the index
IndexParts(c) ==
    << c.collision_map, c.collidable_tiles, c.collision_objects, c.spatial_grid >>

\* C27: once the build has completed, no is_position_collidable,
\* is_tile_collidable, Player.check_collision or Player.update call changes
\* the occupancy grid, the collidable-id set, the shape list or the spatial
\* grid.
C27_ReadOnly ==
    [][ ((GameQuery \/ GameTick) /\ ~IsNone(game_map) /\ ~IsNone(game_map.cm))
            => IndexParts(game_map'.cm) = IndexParts(game_map.cm) ]_vars

\* a point inside the collision rectangle was found blocked after the
\* player had moved, on a map with an occupied cell
C27_Witness ==
    /\ tick > 0
    /\ query.kind = "position"
    /\ query.result
    /\ ~IsNone(game_map)
    /\ game_map.cm.collision_objects # << >>
    /\ ~game_map.cm.collision_map[0]

-----------------------------------------------------------------------------
(* One AssetManager, called again and again while the files change *)

MaxCalls == 4

\* tileset a with a single tile
DocSmall == TilesetDoc(S_Grass, 1, << >>, << << >> >>)

\* tileset b with an animated tile
DocAnimated ==
    [name |-> S_Water, tilecount |-> 2, columns |-> 1,
     tilewidth |-> 16, tileheight |-> 16,
     tiles |-> << [id |-> 1,
                   animation |-> << [tileid |-> 0, duration |-> 100],
                                    [tileid |-> 1, duration |-> 100] >>] >>]

\* what a tileset file may hold; << >> stands for no file
CacheDocs(path) ==
    (IF path = PathA THEN {DocA, DocSmall} ELSE {DocB, DocAnimated})
        \cup {CorruptDoc, NotObjectDoc, << >>}

PutFile(fs, path, doc) ==
    IF doc = << >>
    THEN [q \in DOMAIN fs \ {path} |-> fs[q]]
    ELSE [q \in DOMAIN fs \cup {path} |-> IF q = path THEN doc ELSE fs[q]]

\* the entry the first successful call for each path returned
NoCalls == [blocked |-> "never", first |-> << >>]

InitCache ==
    /\ \E a \in {DocA, DocSmall}, b \in {DocB, DocAnimated, << >>} :
          files = PutFile((PathA :> a), PathB, b)
    /\ map_path = MapPath
    /\ tilemap = NewTileMap
    /\ cm = NoneVal
    /\ pc = "assets"
    /\ query = NoQuery
    /\ player = NewPlayer(0, 0, 600)
    /\ tick = 0
    /\ last = NoCalls
    /\ game_map = NoMap

Remember(path, entry) ==
    IF IsNone(entry) \/ path \in DOMAIN last.first
    THEN last
    ELSE [last EXCEPT !.first = (path :> entry) @@ @]

OnDisk(path) == IF path \in DOMAIN files THEN files[path] ELSE << >>

\* the call raised: asset_manager.py line 86 on a cache miss
CallRaised ==
    /\ pc' = "raised"
    /\ query' = [kind |-> "raised", op |-> "load_tileset",
                 error |-> "AttributeError"]
    /\ UNCHANGED <<tilemap, last>>

\* AssetManager.load_tileset(path), as get_animation, AnimatedSprite and
\* Player call it
CallLoadTileset ==
    /\ pc = "assets"
    /\ tick < MaxCalls
    /\ \E path \in {PathA, PathB} :
          IF path \notin DOMAIN tilemap.asset_tilesets /\ TilesetRaises(files, path)
          THEN CallRaised
          ELSE LET r == AssetLoadTileset(tilemap.asset_tilesets, files, path)
               IN  /\ tilemap' = [tilemap EXCEPT !.asset_tilesets = r[2]]
                   /\ query' = [kind |-> "load_tileset", path |-> path,
                                entry |-> r[1], on_disk |-> OnDisk(path),
                                known |-> path \in DOMAIN last.first]
                   /\ last' = Remember(path, r[1])
                   /\ pc' = pc
    /\ tick' = tick + 1
    /\ UNCHANGED <<game_map, files, map_path, cm, player>>

\* TileMap.load_tileset(ref): the same call, after which the entry is changed
\* in place
CallTileMapLoadTileset ==
    /\ pc = "assets"
    /\ tick < MaxCalls
    /\ \E path \in {PathA, PathB}, g \in {1, 3} :
          IF path \notin DOMAIN tilemap.asset_tilesets /\ TilesetRaises(files, path)
          THEN CallRaised
          ELSE LET r == AssetLoadTileset(tilemap.asset_tilesets, files, path)
                   tm == TileMapLoadTileset(tilemap, files,
                                            [firstgid |-> g, source |-> path])
               IN  /\ tilemap' = tm
                   /\ query' = [kind |-> "tilemap_load_tileset", path |-> path,
                                entry |-> IF IsNone(r[1]) THEN r[1]
                                          ELSE tm.asset_tilesets[path],
                                on_disk |-> OnDisk(path),
                                known |-> path \in DOMAIN last.first]
                   /\ last' = Remember(path, r[1])
                   /\ pc' = pc
    /\ tick' = tick + 1
    /\ UNCHANGED <<game_map, files, map_path, cm, player>>

\* the file system outside the program: a tileset file is written or removed
RewriteFile ==
    /\ pc = "assets"
    /\ tick < MaxCalls
    /\ \E path \in {PathA, PathB} : \E doc \in CacheDocs(path) :
          /\ doc # OnDisk(path)
          /\ files' = PutFile(files, path, doc)
    /\ tick' = tick + 1
    /\ UNCHANGED <<game_map, map_path, tilemap, cm, pc, query, player, last>>

NextCache ==
    \/ CallLoadTileset
    \/ CallTileMapLoadTileset
    \/ RewriteFile

SpecCache == InitCache /\ [][NextCache]_vars

ParsedFields(entry) ==
    [k \in {"columns", "tilecount", "tilewidth", "tileheight", "tiles",
            "animations"} |-> entry[k]]

LaterCall ==
    /\ query.kind \in {"load_tileset", "tilemap_load_tileset"}
    /\ query.known

\* C19: once AssetManager.load_tileset(path) has succeeded, every later call
\* with the same path returns the cached entry, whatever the file holds by
\* then, and the entry's columns, tilecount, tile size, tiles and animations
\* are those of the first call.
C19_CacheIdempotent ==
    LaterCall =>
        /\ ~IsNone(query.entry)
        /\ query.path \in DOMAIN tilemap.asset_tilesets
        /\ query.entry = tilemap.asset_tilesets[query.path]
        /\ ParsedFields(query.entry) = ParsedFields(last.first[query.path])

\* a later call made after the file was replaced by one that parses to
\* other fields, or that no longer parses
C19_Witness ==
    /\ LaterCall
    /\ \/ query.on_disk \in {<< >>, CorruptDoc, NotObjectDoc}
       \/ /\ query.on_disk \in {DocA, DocSmall, DocB, DocAnimated}
          /\ ParsedFields(ParseTileset(query.on_disk))
                 # ParsedFields(query.entry)

-----------------------------------------------------------------------------
(* One TileMap that loads a second map: TileMap.load_map called again *)

MaxReloads == 1

MapPath2 == "data/assets/maps/second_map.tmj"
PathC == "data/assets/tilesets/c.tsj"

\* tileset c: four tiles, none flagged
DocC == TilesetDoc(S_Ground, 4, << >>, << << >>, << >>, << >>, << >> >>)

\* the first map: tilesets b (gids 1, 2) and a (gids 3, 4, all collidable)
\* with a collision rectangle, or tileset a alone
FirstMaps ==
    { MapDoc(3, 2,
          << [firstgid |-> 1, source |-> PathB], [firstgid |-> 3, source |-> PathA] >>,
          << TileLayer(S_Ground, TRUE, <<1, 2, 3, 4, 0, 0>>),
             ObjectLayer(S_Collision,
                 << [x |-> 8, y |-> 8, width |-> 16, height |-> 24] >>) >>),
      MapDoc(3, 2,
          << [firstgid |-> 1, source |-> PathA] >>,
          << TileLayer(S_Ground, TRUE, <<1, 2, 0, 0, 0, 0>>) >>) }

\* the second map: tileset c (gids 1 to 4) on a 4 x 3 map, or tileset b with
\* a collision ellipse; << >> stands for no file
SecondMaps ==
    { MapDoc(4, 3,
          << [firstgid |-> 1, source |-> PathC] >>,
          << TileLayer(S_Ground, TRUE, <<1, 2, 3, 4, 1, 2, 3, 4, 0, 0, 0, 0>>) >>),
      MapDoc(3, 2,
          << [firstgid |-> 1, source |-> PathB] >>,
          << TileLayer(S_Ground, TRUE, <<1, 2, 0, 0, 1, 2>>),
             ObjectLayer(S_Collision,
                 << [x |-> 24, y |-> 8, width |-> 16, height |-> 16,
                     ellipse |-> TRUE] >>) >>),
      CorruptDoc,
      << >> }

ReloadFiles ==
    { PutFile((MapPath :> a) @@ (PathA :> DocA) @@ (PathB :> DocB)
                  @@ (PathC :> DocC), MapPath2, b) :
        a \in FirstMaps, b \in SecondMaps }

InitReload ==
    /\ files \in ReloadFiles
    /\ map_path = MapPath
    /\ tilemap = NewTileMap
    /\ cm = NoneVal
    /\ pc = "init"
    /\ query = NoQuery
    /\ player = NewPlayer(0, 0, 600)
    /\ tick = 0
    /\ last = NoTick
    /\ game_map = NoMap

\* TileMap.load_map(second map) on the TileMap that holds the first: lines
\* 36-67 on the object as it is. A file that does not open or parse returns
\* at line 41 and leaves the TileMap and its CollisionManager as they were.
LoadMapAgain ==
    /\ pc = "built"
    /\ query = NoQuery
    /\ tick < MaxReloads
    /\ map_path' = MapPath2
    /\ IF Readable(files, MapPath2)
       THEN /\ tilemap' = ReadMap(tilemap, files, MapPath2)
            /\ cm' = NewCollisionManager(
                         tilemap'.tile_width, tilemap'.tile_height,
                         tilemap'.map_width, tilemap'.map_height)
            /\ pc' = "layers"
       ELSE /\ UNCHANGED <<tilemap, cm>>
            /\ pc' = "kept"
    /\ tick' = tick + 1
    /\ UNCHANGED <<game_map, files, query, player, last>>

\* a query on the TileMap whose second load returned at line 41
QueryKept ==
    /\ pc = "kept"
    /\ query = NoQuery
    /\ \E g \in 0..MaxGid :
          query' = [kind |-> "tile", gid |-> g, result |-> IsTileCollidable(cm, g)]
    /\ UNCHANGED <<game_map, files, map_path, tilemap, cm, pc, player, tick, last>>

NextReload ==
    \/ LoadMapStart
    \/ StepLoadObjects
    \/ StepIdentify
    \/ StepBuild
    \/ LoadMapAgain
    \/ QueryTile
    \/ QueryPosition
    \/ QueryKept

SpecReload == InitReload /\ [][NextReload]_vars

\* TileMap(path): a fresh TileMap built from the file alone
FreshTileMap(path) ==
    IF Readable(files, path) THEN ReadMap(NewTileMap, files, path)
    ELSE NewTileMap

\* the CollisionManager of that fresh TileMap, None when the file did not load
FreshIndex(path) ==
    IF Readable(files, path)
    THEN LET tm == FreshTileMap(path)
         IN  BuildIndex(NewCollisionManager(tm.tile_width, tm.tile_height,
                                            tm.map_width, tm.map_height), tm)
    ELSE NoneVal

Reloaded == tick > 0 /\ pc \in {"built", "kept"}

\* C26 as stated: after a TileMap that loaded one map loads another, the
\* collidable-id set, the occupancy grid, the shape list and the spatial
\* grid are those of a fresh TileMap built from the second map alone, and
\* no tileset of the first map survives.
C26_Original ==
    Reloaded =>
        /\ cm = FreshIndex(MapPath2)
        /\ DOMAIN tilemap.tileset_images
              = DOMAIN FreshTileMap(MapPath2).tileset_images

\* what does hold when the second map loads: the shape list and the spatial
\* grid are those of a fresh build, and the collidable ids of a fresh build
\* are among the collidable ids
ReloadRebuildsShapes ==
    (tick > 0 /\ pc = "built") =>
        /\ cm.collision_objects = FreshIndex(MapPath2).collision_objects
        /\ cm.spatial_grid = FreshIndex(MapPath2).spatial_grid
        /\ FreshIndex(MapPath2).collidable_tiles \subseteq cm.collidable_tiles

ReloadedWithShapes ==
    /\ tick > 0 /\ pc = "built"
    /\ cm.collision_objects # << >>
    /\ cm = FreshIndex(MapPath2)

-----------------------------------------------------------------------------
(* The single-cell lookup against the search through every shape *)

\* the brute-force query: the dense grid, then exact containment against
\* every collision shape of the list
BruteForce(x, y) == TileBlocked(cm, x, y) \/ SomeShapeContains(x, y)

\* C30: for every point with x >= 0 and y >= 0 and every built index,
\* is_position_collidable(x, y), which tests only the shapes registered in
\* the point's single spatial-grid cell, returns the same answer as the
\* brute-force query that checks the dense grid and then tests exact
\* containment against every collision shape in the list.
C30_Original ==
    (query.kind = "position" /\ NonNegative(query.x, query.y))
        => (query.result <=> BruteForce(query.x, query.y))

\* no rectangle or ellipse of the index has a negative width or height
ForwardShapes ==
    \A i \in DOMAIN cm.collision_objects :
        LET obj == cm.collision_objects[i]
        IN  obj.type # "polygon" => obj.width.n >= 0 /\ obj.height.n >= 0

\* the two queries agree on every index whose shapes have no negative extent
BroadPhaseAgreesOnForwardShapes ==
    (query.kind = "position" /\ NonNegative(query.x, query.y) /\ ForwardShapes)
        => (query.result <=> BruteForce(query.x, query.y))

\* a point of a free tile cell answered blocked by a shape found in its cell
BlockedThroughItsCell ==
    /\ query.kind = "position"
    /\ NonNegative(query.x, query.y)
    /\ ForwardShapes
    /\ ~TileBlocked(cm, query.x, query.y)
    /\ query.result

\* an ellipse of negative width contains the point and is in no cell
ReversedEllipseMissed ==
    /\ query.kind = "position"
    /\ NonNegative(query.x, query.y)
    /\ ~query.result
    /\ SomeShapeContains(query.x, query.y)
    /\ cm.spatial_grid = << >>

-----------------------------------------------------------------------------
(* Claims about collidable property values that are not "true" *)

\* the property is named collidable and its value is not "true" in any
\* letter case
Untrue(prop) ==
    /\ Has(prop, "name")
    /\ prop.name = S_collidable
    /\ Lower(Get(prop, "value", S_false)) # S_true

WithoutUntrue(d) ==
    IF Has(d, "properties")
    THEN [d EXCEPT !.properties = SelectSeq(@, LAMBDA prop : ~Untrue(prop))]
    ELSE d

\* the tileset entry with every such property taken out
StripTileset(tileset) ==
    LET top == WithoutUntrue(tileset)
    IN  IF Has(top, "original_data") /\ Has(top.original_data, "tiles")
        THEN [top EXCEPT !.original_data.tiles =
                 [i \in DOMAIN @ |-> WithoutUntrue(@[i])]]
        ELSE top

Stripped(tilesets) == [g \in DOMAIN tilesets |-> StripTileset(tilesets[g])]

HasUntrue(tilesets) == Stripped(tilesets) # tilesets

\* the gids that are marked when the untrue properties count as false
MarkedWithout(tilesets) ==
    UNION {TilesetGids(g, Stripped(tilesets)[g]) : g \in DOMAIN tilesets}

\* C28: when a tileset-level or tile-level collidable property carries a
\* value that is not the string "true" in any letter case (the string
\* "false", another string, a JSON boolean or number),
\* identify_collidable_tiles treats it as false, marks nothing for it, does
\* not raise, and map loading completes.
C28_Original ==
    /\ pc = "raised" => LoadRaises(files, map_path)
    /\ (pc \in {"identified", "built"} /\ HasUntrue(tilemap.tileset_images))
          => cm.collidable_tiles = MarkedWithout(tilemap.tileset_images)

\* an untrue value that is a str is treated as false: nothing is marked for
\* it and the build completes
UntrueStrMarksNothing ==
    /\ (pc = "raised" /\ ~LoadRaises(files, map_path))
          => \E g \in DOMAIN tilemap.tileset_images :
                TilesetRaises_Identify(tilemap.tileset_images[g])
    /\ (pc \in {"identified", "built"} /\ HasUntrue(tilemap.tileset_images))
          => cm.collidable_tiles = MarkedWithout(tilemap.tileset_images)

\* the value "yes" on a tile next to a tile flagged "true": built, gid 1 marked
UntrueStrBuilt ==
    /\ pc = "built"
    /\ HasUntrue(tilemap.tileset_images)
    /\ ~IdentifyRaises(tilemap.tileset_images)
    /\ cm.collidable_tiles = {1}

\* identify_collidable_tiles raised after it had marked gid 1
IdentifyRaisedHalfway ==
    /\ pc = "raised"
    /\ ~LoadRaises(files, map_path)
    /\ cm.collidable_tiles = {1}

====
